---- MODULE Spec2Model ----
(***************************************************************************)
(* Paginated fetch and tabular flattening of the Bynder media proxy        *)
(* (src/controllers/mediaController.js).                                   *)
(*                                                                         *)
(* mediaController.js holds two revisions of the controller one after the  *)
(* other.  The first (lines 1-882) fetches with fetchMediaFromBynder, the  *)
(* second (lines 883-1702) with getAllMediaItems.  Both are modelled; the  *)
(* handlers of the first revision carry the suffix A, those of the second  *)
(* the suffix B.                                                           *)
(***************************************************************************)
EXTENDS Integers, Sequences, FiniteSets, TLC

VARIABLES
    handler,      \* the handler (or direct caller) that runs the fetch
    fn,           \* the fetch function in use
    pc,           \* position of the fetch: idle, loop, await, returned, thrown
    limitIn,      \* the limit handed to the fetch (a JS value)
    queryParams,  \* the filter mapping handed to the fetch
    limit,        \* the fetch's effective limit (a JS value)
    apiQuery,     \* fetchMediaFromBynder's query object / getAllMediaItems' query
    page,         \* next page number of the loop
    hasMoreItems, \* loop flag
    allMedia,     \* accumulated items
    upstream,     \* the upstream listing: one item count per page
    catalogue,    \* the upstream listing when it serves pages of the size asked
    inflight,     \* upstream requests sent and not yet answered
    requests,     \* history: every upstream request, in order of sending
    responses,    \* history: TRUE for a page, FALSE for a failure, per answer
    result,       \* what the fetch handed back to its caller
    records,      \* flattener input: the media items to export
    table,        \* flattener output
    fpc,          \* position of the flattener: ready, done
    bynderInstance, \* the SDK instance the handler factory was given
    apiToken,     \* the token of the instance as a content access handler found it
    req,          \* the request parameters a handler reads besides the filters
    sdkCalls,     \* history: upstream calls other than getMediaList
    res,          \* the response the handler produced, if any
    uploads,      \* the paths written in the uploads directory, in order
    call,         \* utility call: the function and its argument
    ret,          \* utility call: the value returned
    now,          \* Date.now(), in milliseconds
    exports,      \* concurrent export requests: position and filename of each
    disk,         \* the files there are, each by the segments of its path
    served        \* the exports and downloads answered so far, with their paths

vars == <<handler, fn, pc, limitIn, queryParams, limit, apiQuery, page,
          hasMoreItems, allMedia, upstream, catalogue, inflight, requests, responses,
          result, records, table, fpc, bynderInstance, apiToken, req, sdkCalls,
          res, uploads, call, ret, now, exports, disk, served>>

fetchVars == <<handler, fn, pc, limitIn, queryParams, limit, apiQuery, page,
               hasMoreItems, allMedia, upstream, catalogue, inflight, requests,
               responses, result>>

flatVars == <<records, table, fpc>>

svcVars == <<bynderInstance, apiToken, req, sdkCalls, res, uploads>>

utilVars == <<call, ret>>

exportVars == <<now, exports, disk, served>>

pathVars == <<disk, served>>

(***************************************************************************)
(* Bounds of the model.                                                    *)
(***************************************************************************)
MaxPages == 2     \* pages the upstream listing holds at most
MaxPageLen == 2   \* items of a short upstream page at most
MaxRecords == 2   \* records handed to the flattener at most

(***************************************************************************)
(* JavaScript values.  Every value is a record of the same shape so that   *)
(* any two can be compared.                                                *)
(***************************************************************************)
Undefined == [t |-> "undefined", n |-> 0, s |-> ""]
Null == [t |-> "null", n |-> 0, s |-> ""]
NaN == [t |-> "nan", n |-> 0, s |-> ""]
Num(k) == [t |-> "num", n |-> k, s |-> ""]
Str(x) == [t |-> "str", n |-> 0, s |-> x]
Bool(b) == [t |-> "bool", n |-> IF b THEN 1 ELSE 0, s |-> ""]

\* ToBoolean: undefined, null, NaN, 0, "" and false are falsy
Truthy(v) ==
    CASE v.t = "num" -> v.n # 0
      [] v.t = "str" -> v.s # ""
      [] v.t = "bool" -> v.n = 1
      [] v.t \in {"array", "object"} -> TRUE
      [] OTHER -> FALSE

\* v === undefined || v === null || v === ''
IsEmptyValue(v) == v.t \in {"undefined", "null"} \/ (v.t = "str" /\ v.s = "")

\* a < b on numbers; every comparison with NaN is false
JsLess(a, b) == a.t = "num" /\ b.t = "num" /\ a.n < b.n

\* a >= b on numbers; every comparison with NaN is false
JsGeq(a, b) == a.t = "num" /\ b.t = "num" /\ a.n >= b.n

\* Math.min(a, b)
MathMin(a, b) ==
    IF a.t = "num" /\ b.t = "num"
    THEN Num(IF a.n < b.n THEN a.n ELSE b.n)
    ELSE NaN

\* a - k for an integer k
JsMinus(a, k) == IF a.t = "num" THEN Num(a.n - k) ELSE NaN

\* obj[key], undefined when the key is absent
Get(obj, key) == IF key \in DOMAIN obj THEN obj[key] ELSE Undefined

\* obj[key] = v
Put(obj, key, v) == [k \in DOMAIN obj \cup {key} |-> IF k = key THEN v ELSE obj[k]]

\* { ...a, ...b }: the keys of b win
Spread(a, b) == [k \in DOMAIN a \cup DOMAIN b |-> IF k \in DOMAIN b THEN b[k] ELSE a[k]]

EmptyObject == [k \in {} |-> Undefined]

\* Object.keys(o).forEach(key => { if (o[key] is empty) delete o[key] })
RemoveEmpty(obj) == [k \in {x \in DOMAIN obj : ~IsEmptyValue(obj[x])} |-> obj[k]]

(***************************************************************************)
(* parseInt.  A query-string value is a sequence of characters.            *)
(***************************************************************************)
Digits == <<"0", "1", "2", "3", "4", "5", "6", "7", "8", "9">>

IsDigit(c) == \E i \in 1..Len(Digits) : Digits[i] = c

DigitVal(c) == (CHOOSE i \in 1..Len(Digits) : Digits[i] = c) - 1

RECURSIVE SkipSpace(_)
SkipSpace(cs) == IF cs # <<>> /\ Head(cs) = " " THEN SkipSpace(Tail(cs)) ELSE cs

RECURSIVE DigitPrefix(_, _)
\* value of the longest run of leading digits of cs, acc the value so far
DigitPrefix(cs, acc) ==
    IF cs # <<>> /\ IsDigit(Head(cs))
    THEN DigitPrefix(Tail(cs), acc * 10 + DigitVal(Head(cs)))
    ELSE acc

\* parseInt(string): leading blanks, an optional sign, then decimal digits;
\* NaN when no digit follows
ParseIntChars(cs) ==
    LET a == SkipSpace(cs)
        neg == a # <<>> /\ Head(a) = "-"
        b == IF a # <<>> /\ Head(a) \in {"-", "+"} THEN Tail(a) ELSE a
    IN  IF b = <<>> \/ ~IsDigit(Head(b))
        THEN NaN
        ELSE Num(IF neg THEN 0 - DigitPrefix(b, 0) ELSE DigitPrefix(b, 0))

\* parseInt(number): an integer is returned as it is; parseInt(undefined),
\* parseInt(null) and parseInt(NaN) are NaN
ParseInt(v) == IF v.t = "num" THEN v ELSE NaN

(***************************************************************************)
(* The upstream listing (bynder.getMediaList), an external collaborator.   *)
(* It holds Len(upstream) pages, page p holding upstream[p] items; a page  *)
(* beyond the last is empty.  The upstream does not look at the requested  *)
(* size, so a page may be shorter or longer than what was asked for.       *)
(* A listing that does serve pages of the requested size out of one fixed  *)
(* list is given by catalogue.                                             *)
(***************************************************************************)
PageSize == 100

PageLens == (0..MaxPageLen) \cup {PageSize}

Upstreams == UNION {[1..n -> PageLens] : n \in 0..MaxPages}

ItemId(p, i) == (p - 1) * PageSize + i

UpstreamPage(p) ==
    IF p \in 1..Len(upstream)
    THEN [i \in 1..upstream[p] |-> ItemId(p, i)]
    ELSE <<>>

\* the listing is paged as upstream says
Paged == [sized |-> FALSE, total |-> 0]

\* the listing serves page p of size s as the items (p-1)*s+1 .. p*s of a
\* fixed list of total items
SizedList(total) == [sized |-> TRUE, total |-> total]

Min(a, b) == IF a <= b THEN a ELSE b

\* page p of size s of the fixed list; no item for a page or size below 1
SizedPage(p, s) ==
    IF p < 1 \/ s < 1 \/ (p - 1) * s >= catalogue.total THEN <<>>
    ELSE [i \in 1..(Min(p * s, catalogue.total) - (p - 1) * s) |-> (p - 1) * s + i]

\* the page the upstream serves for request q
UpstreamAnswer(q) ==
    IF Get(q, "page").t # "num" THEN <<>>
    ELSE IF ~catalogue.sized THEN UpstreamPage(Get(q, "page").n)
    ELSE IF Get(q, "limit").t # "num" THEN <<>>
    ELSE SizedPage(Get(q, "page").n, Get(q, "limit").n)

(***************************************************************************)
(* fetchMediaFromBynder (first revision).                                  *)
(***************************************************************************)
DefaultLimit == 100

\* const limit = parseInt(queryParams.limit) || 100
EffectiveLimit(qp) ==
    LET l == ParseInt(Get(qp, "limit"))
    IN  IF Truthy(l) THEN l ELSE Num(DefaultLimit)

FetchFilterKeys == {"type", "limited", "orientation", "orderBy"}

\* apiQuery as built before the loop: page, limit, total: 1, the truthy
\* filters, then the removal of empty values
InitialApiQuery(qp) ==
    LET base == [page |-> Num(1),
                 limit |-> MathMin(Num(PageSize), EffectiveLimit(qp)),
                 total |-> Num(1)]
        filters == [k \in {x \in FetchFilterKeys : Truthy(Get(qp, x))} |-> qp[k]]
    IN  RemoveEmpty(Spread(base, filters))

\* apiQuery as sent: page and limit set by the loop, empty values removed
RequestA(q, pg, lim, have) ==
    RemoveEmpty(Put(Put(q, "page", Num(pg)),
                    "limit", MathMin(Num(PageSize), JsMinus(lim, have))))

\* if (apiQuery.total === 1) apiQuery.total = 0
ResetTotal(q) == IF Get(q, "total") = Num(1) THEN Put(q, "total", Num(0)) ELSE q

\* mutant: the catch of the loop body leaves hasMoreItems set
HasMoreAfterErrorRetry == TRUE

\* hasMoreItems after a failed page request (the catch of the loop body)
HasMoreAfterErrorA == FALSE

(***************************************************************************)
(* getAllMediaItems (second revision).                                     *)
(***************************************************************************)
\* query = { page, limit, total: 0 } merged with queryParams
RequestB(pg, lim, have, qp) ==
    Spread([page |-> Num(pg),
            limit |-> MathMin(Num(PageSize), JsMinus(lim, have)),
            total |-> Num(0)],
           qp)

(***************************************************************************)
(* The loop, common shape of both fetch functions.                         *)
(***************************************************************************)
\* while (hasMoreItems && allMedia.length < limit)
LoopGuard == hasMoreItems /\ JsLess(Num(Len(allMedia)), limit)

\* mutant: getMediaList is called without await, the loop runs on
MayIssueWithoutAwait == pc \in {"loop", "await"}

\* the loop is suspended at `await bynder.getMediaList(...)` until the answer
MayIssue == pc = "loop"

\* mutant: the page is put in front of the items collected so far
AccumulateInFront(all, resp) == resp \o all

\* mutant: hasMoreItems is cleared after every page, short or not
HasMoreNever(all, lim) == FALSE

\* a slip of the loop body: the page is not kept
AccumulateNothing(all, resp) == all

\* allMedia.push(...response)
Accumulate(all, resp) == all \o resp

\* if (allMedia.length >= limit) hasMoreItems = false
HasMoreAfterPage(all, lim) == ~JsGeq(Num(Len(all)), lim)

\* a slip: the loop writes its query into the caller's mapping
CallerMappingAliased(qp, q) == q

\* the caller's mapping after the loop wrote q: apiQuery (first revision)
\* and query (second revision) are object literals of their own, so the
\* writes and deletes of the loop leave queryParams as it was
CallerMapping(qp, q) == qp

Send(q) ==
    /\ requests' = Append(requests, q)
    /\ inflight' = inflight \cup {Len(requests) + 1}
    /\ pc' = "await"

Receive(ok) ==
    /\ responses' = Append(responses, ok)
    /\ inflight' = inflight \ {Len(responses) + 1}

\* fetchMediaFromBynder: one turn of the loop up to the await
IssueA ==
    /\ fn = "fetchMediaFromBynder"
    /\ MayIssue
    /\ LoopGuard
    /\ apiQuery' = RequestA(apiQuery, page, limit, Len(allMedia))
    /\ queryParams' = CallerMapping(queryParams, apiQuery')
    /\ Send(apiQuery')
    /\ UNCHANGED <<handler, fn, limitIn, limit, page,
                   hasMoreItems, allMedia, upstream, catalogue, responses, result, records, table, fpc, svcVars, utilVars,
                   exportVars>>

\* fetchMediaFromBynder: the answer arrives, rest of the loop body
PageA ==
    /\ fn = "fetchMediaFromBynder"
    /\ pc = "await"
    /\ LET resp == UpstreamAnswer(requests[Len(responses) + 1])
       IN  /\ Receive(TRUE)
           /\ IF resp # <<>>
              THEN /\ allMedia' = Accumulate(allMedia, resp)
                   /\ page' = page + 1
                   /\ hasMoreItems' = HasMoreAfterPage(allMedia', limit)
              ELSE /\ hasMoreItems' = FALSE
                   /\ UNCHANGED <<allMedia, page>>
    /\ apiQuery' = ResetTotal(apiQuery)
    /\ queryParams' = CallerMapping(queryParams, apiQuery')
    /\ pc' = "loop"
    /\ UNCHANGED <<handler, fn, limitIn, limit, upstream, catalogue,
                   requests, result, records, table, fpc, svcVars, utilVars,
                   exportVars>>

\* fetchMediaFromBynder: the page request fails, caught inside the loop
ErrorA ==
    /\ fn = "fetchMediaFromBynder"
    /\ pc = "await"
    /\ Receive(FALSE)
    /\ hasMoreItems' = HasMoreAfterErrorA
    /\ apiQuery' = ResetTotal(apiQuery)
    /\ queryParams' = CallerMapping(queryParams, apiQuery')
    /\ pc' = "loop"
    /\ UNCHANGED <<handler, fn, limitIn, limit, page, allMedia,
                   upstream, catalogue, requests, result, records, table, fpc, svcVars, utilVars,
                   exportVars>>

\* getAllMediaItems: one turn of the loop up to the await
IssueB ==
    /\ fn = "getAllMediaItems"
    /\ MayIssue
    /\ LoopGuard
    /\ apiQuery' = RequestB(page, limit, Len(allMedia), queryParams)
    /\ queryParams' = CallerMapping(queryParams, apiQuery')
    /\ Send(apiQuery')
    /\ UNCHANGED <<handler, fn, limitIn, limit, page,
                   hasMoreItems, allMedia, upstream, catalogue, responses, result, records, table, fpc, svcVars, utilVars,
                   exportVars>>

\* getAllMediaItems: the answer arrives, rest of the loop body
PageB ==
    /\ fn = "getAllMediaItems"
    /\ pc = "await"
    /\ LET resp == UpstreamAnswer(requests[Len(responses) + 1])
       IN  /\ Receive(TRUE)
           /\ IF resp = <<>>
              THEN /\ hasMoreItems' = FALSE
                   /\ UNCHANGED <<allMedia, page>>
              ELSE /\ allMedia' = Accumulate(allMedia, resp)
                   /\ page' = page + 1
                   /\ hasMoreItems' = HasMoreAfterPage(allMedia', limit)
    /\ pc' = "loop"
    /\ UNCHANGED <<handler, fn, limitIn, queryParams, limit, apiQuery,
                   upstream, catalogue, requests, result, records, table, fpc, svcVars, utilVars,
                   exportVars>>

\* getAllMediaItems: the page request fails; the catch logs and rethrows
ErrorB ==
    /\ fn = "getAllMediaItems"
    /\ pc = "await"
    /\ Receive(FALSE)
    /\ pc' = "thrown"
    /\ UNCHANGED <<handler, fn, limitIn, queryParams, limit, apiQuery, page,
                   hasMoreItems, allMedia, upstream, catalogue, requests, result,
                   records, table, fpc, svcVars, utilVars,
                   exportVars>>

\* either function: the loop ends, return allMedia
Return ==
    /\ pc = "loop"
    /\ ~LoopGuard
    /\ pc' = "returned"
    /\ result' = allMedia
    /\ UNCHANGED <<handler, fn, limitIn, queryParams, limit, apiQuery, page,
                   hasMoreItems, allMedia, upstream, catalogue, inflight, requests,
                   responses, records, table, fpc, svcVars, utilVars,
                   exportVars>>

(***************************************************************************)
(* Handlers.  req.query maps a parameter name to the string the caller     *)
(* sent; the limit and page parameters are kept as character sequences so  *)
(* that parseInt works on them.                                            *)
(***************************************************************************)
DefaultExportLimit == 1000
DefaultListLimit == 100
MaxListLimit == 1000
MetaExportLimit == 100

Absent == [present |-> FALSE, cs |-> <<>>]
Sent(cs) == [present |-> TRUE, cs |-> cs]

\* the limit / page query values the model sends
NumberQueries ==
    {Absent, Sent(<<>>), Sent(<<"0">>), Sent(<<"2">>), Sent(<<"-", "1">>),
     Sent(<<"a">>), Sent(<<"1", "0", "1">>), Sent(<<" ", "3", "x">>),
     Sent(<<"2", "0", "0", "0">>)}

\* the filter parts of req.query the model sends
ReqQueries ==
    {EmptyObject,
     [type |-> Str("image")],
     [type |-> Str("")],
     [type |-> Str("image"), orientation |-> Str(""), orderBy |-> Str("name")],
     [limited |-> Str("")],
     [limited |-> Str("1"), isPublic |-> Str("false")],
     [limitedUsage |-> Str(""), ids |-> Str("")],
     [limitedUsage |-> Str("true")],
     [property_Color |-> Str("")],
     [property_Color |-> Str("red"), brandId |-> Str("b1")]}

\* parseInt(limit) where limit defaults to dflt when the parameter is absent
ParsedOrDefault(q, dflt) == IF q.present THEN ParseIntChars(q.cs) ELSE Num(dflt)

\* createMediaExporter, first revision: the parameters given to the fetch
ExporterParamsA(lq, rq) ==
    [limit |-> ParsedOrDefault(lq, DefaultExportLimit),
     type |-> Get(rq, "type"),
     limited |-> Get(rq, "limited"),
     orientation |-> Get(rq, "orientation"),
     orderBy |-> Get(rq, "orderBy")]

\* a slip of the cap: the parsed limit is used as it is
ListLimitUncapped(lq) == ParsedOrDefault(lq, DefaultListLimit)

\* getMediaList, both revisions: Math.min(parseInt(limit), 1000)
ListLimit(lq) == MathMin(ParsedOrDefault(lq, DefaultListLimit), Num(MaxListLimit))

\* getMediaList, first revision: the parameters given to the fetch
ListParamsA(lq, pq, rq) ==
    LET pg == ParsedOrDefault(pq, 1)
        base == [limit |-> ListLimit(lq),
                 page |-> IF Truthy(pg) THEN pg ELSE Num(1)]
        opt == [type |-> Get(rq, "type"),
                orderBy |-> Get(rq, "orderBy"),
                limited |-> Get(rq, "limitedUsage"),
                orientation |-> Get(rq, "orientation")]
    IN  Spread(base, [k \in {x \in DOMAIN opt : ~IsEmptyValue(opt[x])} |-> opt[k]])

\* getMetaPropertiesList, first revision: the parameters given to the fetch
MetaListParamsA(lq, rq) ==
    LET base == [limit |-> ParsedOrDefault(lq, DefaultListLimit)]
        opt == [type |-> Get(rq, "type"),
                limited |-> Get(rq, "limitedUsage"),
                orientation |-> Get(rq, "orientation")]
    IN  Spread(base, [k \in {x \in DOMAIN opt : Truthy(opt[x])} |-> opt[k]])

\* exportMetaProperties, first revision: the parameters given to the fetch
MetaExportParamsA(rq) ==
    LET base == [limit |-> Num(MetaExportLimit)]
        opt == [type |-> Get(rq, "type"),
                limited |-> Get(rq, "limitedUsage"),
                orientation |-> Get(rq, "orientation")]
    IN  Spread(base, [k \in {x \in DOMAIN opt : ~IsEmptyValue(opt[x])} |-> opt[k]])

TruthyFilterKeysB ==
    {"orientation", "dateModifiedOn", "dateCreatedOn", "ids", "categoryId",
     "brandId", "type"}

BooleanFilterKeysB == {"limited", "isPublic"}

\* key.startsWith('property_'), over the parameter names of the model
PropertyKeys == {"property_Color"}

\* limited === 'true' || limited === '1' ? true : false
ToBooleanFilter(v) == Bool(v = Str("true") \/ v = Str("1"))

\* createMediaExporter and getMediaList, second revision: queryParams
QueryParamsB(rq) ==
    LET keep == {k \in DOMAIN rq :
                    \/ k \in TruthyFilterKeysB /\ Truthy(rq[k])
                    \/ k \in BooleanFilterKeysB /\ rq[k] # Undefined
                    \/ k \in PropertyKeys}
    IN  [k \in keep |-> IF k \in BooleanFilterKeysB THEN ToBooleanFilter(rq[k]) ELSE rq[k]]

\* parameters of a direct call of fetchMediaFromBynder
DirectParamsA ==
    {EmptyObject,
     [limit |-> Num(-1)], [limit |-> Num(0)], [limit |-> Num(1)],
     [limit |-> Num(2)], [limit |-> Num(3)], [limit |-> Num(PageSize + 1)],
     [limit |-> Num(2), page |-> Num(2), total |-> Num(1)],
     [limit |-> Num(3), type |-> Null, orientation |-> Str("")]}

\* limits and filters of a direct call of getAllMediaItems
DirectLimitsB ==
    {NaN, Num(-1), Num(0), Num(1), Num(2), Num(3), Num(PageSize + 1)}

DirectFiltersB ==
    {EmptyObject, [limit |-> Num(1)], [total |-> Num(1)],
     [type |-> Str("image")], [type |-> Str("")]}

DirectCallsB ==
    (DirectLimitsB \X DirectFiltersB)
        \cup ({Num(1), Num(2), Num(3)} \X {[page |-> Num(2)]})

(***************************************************************************)
(* Responses (src/utils/responseUtils.js).  A response is the envelope     *)
(* sent with res.status(...).json(...), or a file piped to the caller.     *)
(***************************************************************************)
\* nothing was sent yet
NoResponse ==
    [kind |-> "none", status |-> 0, success |-> FALSE, code |-> "", message |-> ""]

\* successResponse(data, message), sent with the given status
successResponse(statusCode, message) ==
    [kind |-> "json", status |-> statusCode, success |-> TRUE, code |-> "",
     message |-> message]

\* errorResponse(message, code, statusCode), sent with its status
errorResponse(message, code, statusCode) ==
    [kind |-> "json", status |-> statusCode, success |-> FALSE, code |-> code,
     message |-> message]

\* fileStream.pipe(res)
fileResponse ==
    [kind |-> "stream", status |-> 200, success |-> TRUE, code |-> "",
     message |-> ""]

\* the promise of the handler rejects outside every try: nothing is sent,
\* process.on('unhandledRejection') shuts the server down
unhandledRejection ==
    [kind |-> "rejected", status |-> 0, success |-> FALSE, code |-> "",
     message |-> ""]

NotInitialized == "Bynder SDK not initialized correctly"

\* a slip of the check: the instance is taken to be there
InstanceAssumed == TRUE

\* the test if (!bynderInstance) of every handler
InstanceAvailable == bynderInstance # "absent"

\* a handler that ends without a fetch: its upstream calls, its answer and
\* the files it wrote
Finish(h, rq, calls, r, files) ==
    /\ pc = "idle"
    /\ handler' = h
    /\ req' = rq
    /\ sdkCalls' = sdkCalls \o calls
    /\ res' = r
    /\ uploads' = uploads \o files
    /\ pc' = "done"
    /\ UNCHANGED <<fn, limitIn, queryParams, limit, apiQuery, page,
                   hasMoreItems, allMedia, upstream, catalogue, inflight, requests,
                   responses, result, bynderInstance, apiToken, flatVars, utilVars,
                   exportVars>>

\* throw new Error('Bynder SDK not initialized correctly') and its catch
Send500(h, rq, code) ==
    Finish(h, rq, <<>>, errorResponse(NotInitialized, code, 500), <<>>)

\* entry of fetchMediaFromBynder: everything before the loop
EnterA(h, rq, qp, up) ==
    /\ pc = "idle"
    /\ handler' = h
    /\ req' = rq
    /\ fn' = "fetchMediaFromBynder"
    /\ queryParams' = qp
    /\ limitIn' = Get(qp, "limit")
    /\ limit' = EffectiveLimit(qp)
    /\ apiQuery' = InitialApiQuery(qp)
    /\ upstream' = up
    /\ pc' = "loop"
    /\ UNCHANGED <<catalogue, page, hasMoreItems, allMedia, inflight, requests,
                   responses, result, bynderInstance, apiToken, sdkCalls, res, uploads,
                   flatVars, utilVars, exportVars>>

\* entry of getAllMediaItems: everything before the loop
EnterB(h, rq, lim, qp, up) ==
    /\ pc = "idle"
    /\ handler' = h
    /\ req' = rq
    /\ fn' = "getAllMediaItems"
    /\ queryParams' = qp
    /\ limitIn' = lim
    /\ limit' = lim
    /\ upstream' = up
    /\ pc' = "loop"
    /\ UNCHANGED <<catalogue, apiQuery, page, hasMoreItems, allMedia, inflight, requests,
                   responses, result, bynderInstance, apiToken, sdkCalls, res, uploads,
                   flatVars, utilVars, exportVars>>

\* the page parameters the model sends to the list handlers
PageQueries == {Absent, Sent(<<"2">>)}

\* the parameters of the request a list handler reads besides the filters
ListRequest(lq, pq) == [limit |-> lq, page |-> pq]

\* createMediaExporter, first revision, up to the fetch
createMediaExporterA ==
    /\ pc = "idle"
    /\ \E lq \in NumberQueries, rq \in ReqQueries, up \in Upstreams :
        IF InstanceAvailable
        THEN EnterA("createMediaExporterA", EmptyObject, ExporterParamsA(lq, rq), up)
        ELSE Send500("createMediaExporterA", EmptyObject, "MEDIA_EXPORT_ERROR")

\* getMediaList, first revision, up to the fetch
getMediaListA ==
    /\ pc = "idle"
    /\ \E lq \in NumberQueries, pq \in PageQueries, rq \in ReqQueries,
       up \in Upstreams :
        IF InstanceAvailable
        THEN EnterA("getMediaListA", ListRequest(lq, pq), ListParamsA(lq, pq, rq), up)
        ELSE Send500("getMediaListA", ListRequest(lq, pq), "MEDIA_LIST_ERROR")

\* getMetaPropertiesList, first revision, up to the fetch
getMetaPropertiesListA ==
    /\ pc = "idle"
    /\ \E lq \in NumberQueries, rq \in ReqQueries, up \in Upstreams :
        IF InstanceAvailable
        THEN EnterA("getMetaPropertiesListA", EmptyObject, MetaListParamsA(lq, rq), up)
        ELSE Send500("getMetaPropertiesListA", EmptyObject, "META_PROPERTY_LIST_ERROR")

\* exportMetaProperties, first revision, up to the fetch
exportMetaPropertiesA ==
    /\ pc = "idle"
    /\ \E rq \in ReqQueries, up \in Upstreams :
        IF InstanceAvailable
        THEN EnterA("exportMetaPropertiesA", EmptyObject, MetaExportParamsA(rq), up)
        ELSE Send500("exportMetaPropertiesA", EmptyObject, "META_PROPERTY_EXPORT_ERROR")

\* createMediaExporter, second revision, up to the fetch
createMediaExporterB ==
    /\ pc = "idle"
    /\ \E lq \in NumberQueries, rq \in ReqQueries, up \in Upstreams :
        IF InstanceAvailable
        THEN EnterB("createMediaExporterB", EmptyObject,
                    ParsedOrDefault(lq, DefaultExportLimit), QueryParamsB(rq), up)
        ELSE Send500("createMediaExporterB", EmptyObject, "MEDIA_EXPORT_ERROR")

\* getMediaList, second revision, up to the fetch
getMediaListB ==
    /\ pc = "idle"
    /\ \E lq \in NumberQueries, pq \in PageQueries, rq \in ReqQueries,
       up \in Upstreams :
        IF InstanceAvailable
        THEN EnterB("getMediaListB", ListRequest(lq, pq), ListLimit(lq),
                    QueryParamsB(rq), up)
        ELSE Send500("getMediaListB", ListRequest(lq, pq), "MEDIA_LIST_ERROR")

\* exportMetaProperties, second revision, up to the fetch: no filters
exportMetaPropertiesB ==
    /\ pc = "idle"
    /\ \E up \in Upstreams :
        IF InstanceAvailable
        THEN EnterB("exportMetaPropertiesB", EmptyObject, Num(MetaExportLimit),
                    EmptyObject, up)
        ELSE Send500("exportMetaPropertiesB", EmptyObject, "META_PROPERTY_EXPORT_ERROR")

\* fetchMediaFromBynder called with parameters of the caller's choice
CallFetchMediaFromBynder ==
    /\ pc = "idle"
    /\ bynderInstance = "present"
    /\ \E qp \in DirectParamsA, up \in Upstreams :
        EnterA("direct", EmptyObject, qp, up)

\* getAllMediaItems called with a limit and filters of the caller's choice
CallGetAllMediaItems ==
    /\ pc = "idle"
    /\ bynderInstance = "present"
    /\ \E c \in DirectCallsB, up \in Upstreams :
        EnterB("direct", EmptyObject, c[1], c[2], up)

(***************************************************************************)
(* The handlers after the fetch, and the handlers with one upstream call.  *)
(* A written artifact is kept as its filename and the number of its rows;  *)
(* of a default filename the prefix and the Date.now() stamp are kept, the *)
(* slug of the domain being the same for every request of a process.       *)
(* Failures of the file system (XLSX.writeFile, the read stream) are left  *)
(* out.                                                                    *)
(***************************************************************************)
\* `${prefix}-${instanceSlug}-${Date.now()}.xlsx`
DefaultFilename(prefix) == [custom |-> FALSE, name |-> prefix, stamp |-> now]

\* the filename parameter of the request
CustomFilename(name) == [custom |-> TRUE, name |-> name, stamp |-> 0]

File(prefix, n) == [filename |-> DefaultFilename(prefix), rows |-> n]

\* the handler h answers r after the fetch, having written files
Respond(h, r, files) ==
    /\ handler = h
    /\ pc \in {"returned", "thrown"}
    /\ res = NoResponse
    /\ res' = r
    /\ uploads' = uploads \o files
    /\ UNCHANGED <<handler, fn, pc, limitIn, queryParams, limit, apiQuery, page,
                   hasMoreItems, allMedia, upstream, catalogue, inflight, requests,
                   responses, result, bynderInstance, apiToken, req, sdkCalls,
                   flatVars, utilVars, exportVars>>

\* createMediaExporter, first revision, after the fetch
createMediaExporterADone ==
    IF result = <<>>
    THEN Respond("createMediaExporterA",
                 successResponse(404, "No media items found to export"), <<>>)
    ELSE Respond("createMediaExporterA",
                 successResponse(200, "Media export completed successfully"),
                 <<File("media", Len(result))>>)

\* getMediaList, first revision, after the fetch
getMediaListADone ==
    /\ pc = "returned"
    /\ Respond("getMediaListA",
               successResponse(200, "Media items retrieved successfully"), <<>>)

\* getMetaPropertiesList, first revision, after the fetch
getMetaPropertiesListADone ==
    IF result = <<>>
    THEN Respond("getMetaPropertiesListA",
                 successResponse(404, "No media items found to extract meta-properties"),
                 <<>>)
    ELSE Respond("getMetaPropertiesListA",
                 successResponse(200, "Meta-properties retrieved successfully"), <<>>)

\* exportMetaProperties, first revision, after the fetch
exportMetaPropertiesADone ==
    IF result = <<>>
    THEN Respond("exportMetaPropertiesA",
                 successResponse(404, "No media items found to extract meta-properties"),
                 <<>>)
    ELSE Respond("exportMetaPropertiesA",
                 successResponse(200, "Meta-properties export completed successfully"),
                 <<File("meta-properties", Len(result))>>)

\* createMediaExporter, second revision, after the fetch
createMediaExporterBDone ==
    IF pc = "thrown"
    THEN Respond("createMediaExporterB",
                 errorResponse("Failed to export media data", "MEDIA_EXPORT_ERROR", 500),
                 <<>>)
    ELSE IF result = <<>>
    THEN Respond("createMediaExporterB", successResponse(200, "No data available"), <<>>)
    ELSE Respond("createMediaExporterB", fileResponse,
                 <<File("media", Len(result))>>)

\* getMediaList, second revision, after the fetch
getMediaListBDone ==
    IF pc = "thrown"
    THEN Respond("getMediaListB",
                 errorResponse("Failed to retrieve media data", "MEDIA_LIST_ERROR", 500),
                 <<>>)
    ELSE Respond("getMediaListB",
                 successResponse(200, "Media items retrieved successfully"), <<>>)

\* exportMetaProperties, second revision, after the fetch
exportMetaPropertiesBDone ==
    IF pc = "thrown"
    THEN Respond("exportMetaPropertiesB",
                 errorResponse("Failed to export meta-properties data",
                               "META_PROPERTY_EXPORT_ERROR", 500), <<>>)
    ELSE IF result = <<>>
    THEN Respond("exportMetaPropertiesB", successResponse(200, "No data available"), <<>>)
    ELSE Respond("exportMetaPropertiesB", fileResponse,
                 <<File("meta-properties", Len(result))>>)

\* an upstream call of a handler and what it gave: an answer is a value
\* (found says if it is truthy) or an error with its status property
Resolved(found) == [ok |-> TRUE, found |-> found, status |-> Undefined]
Rejected(status) == [ok |-> FALSE, found |-> FALSE, status |-> status]
SdkCall(op, answer) == [op |-> op, answer |-> answer]

\* what getMediaInfo can give
MediaInfoAnswers ==
    {Resolved(TRUE), Resolved(FALSE), Rejected(Num(404)), Rejected(Num(500)),
     Rejected(Num(401)), Rejected(Undefined)}

\* what getMetaproperties can give: a mapping, an empty mapping or nothing
MetapropertiesAnswers ==
    {"mapping", "empty", "nothing", "error"}

\* the id parameter of the path
IdParams == {Undefined, Str(""), Str("abc")}

\* a slip of the catch: every upstream error is a server error
StatusOfAlways500(apiError) == IF Truthy(apiError.status) THEN 500 ELSE 500

\* apiError.status || 500
StatusOf(apiError) == IF Truthy(apiError.status) THEN apiError.status.n ELSE 500

\* getMediaById: the answer to what getMediaInfo gave
MediaInfoResponse(ans) ==
    IF ans.ok
    THEN IF ans.found
         THEN successResponse(200, "Media item retrieved successfully")
         ELSE errorResponse("Media item not found", "RESOURCE_NOT_FOUND", 404)
    ELSE LET statusCode == StatusOf(ans)
         IN  IF statusCode = 404
             THEN errorResponse("Media item with ID not found", "MEDIA_NOT_FOUND",
                                statusCode)
             ELSE errorResponse("Error retrieving media from Bynder",
                                "BYNDER_API_ERROR", statusCode)

\* getMediaById, first revision
getMediaByIdA ==
    /\ pc = "idle"
    /\ \E id \in IdParams, ans \in MediaInfoAnswers :
        LET rq == [id |-> id]
        IN  IF ~Truthy(id)
            THEN Finish("getMediaByIdA", rq, <<>>,
                        errorResponse("Media ID is required", "INVALID_PARAMETER", 400),
                        <<>>)
            ELSE IF ~InstanceAvailable
            THEN Send500("getMediaByIdA", rq, "MEDIA_FETCH_ERROR")
            ELSE Finish("getMediaByIdA", rq, <<SdkCall("getMediaInfo", ans)>>,
                        MediaInfoResponse(ans), <<>>)

\* getMediaById, second revision: with the mock data of development
getMediaByIdB ==
    /\ pc = "idle"
    /\ \E id \in IdParams, ans \in MediaInfoAnswers, mock \in BOOLEAN :
        LET rq == [id |-> id]
        IN  IF ~Truthy(id)
            THEN Finish("getMediaByIdB", rq, <<>>,
                        errorResponse("Media ID is required", "INVALID_PARAMETER", 400),
                        <<>>)
            ELSE IF ~InstanceAvailable
            THEN Send500("getMediaByIdB", rq, "MEDIA_FETCH_ERROR")
            ELSE IF mock
            THEN Finish("getMediaByIdB", rq, <<>>,
                        successResponse(200, "Media item retrieved successfully"), <<>>)
            ELSE Finish("getMediaByIdB", rq, <<SdkCall("getMediaInfo", ans)>>,
                        MediaInfoResponse(ans), <<>>)

\* getMetapropertyList of the metaproperty controller
getMetapropertyList ==
    /\ pc = "idle"
    /\ \E ans \in MetapropertiesAnswers, mock \in BOOLEAN :
        IF ~InstanceAvailable
        THEN Send500("getMetapropertyList", EmptyObject, "METAPROPERTY_LIST_ERROR")
        ELSE IF mock
        THEN Finish("getMetapropertyList", EmptyObject, <<>>,
                    successResponse(200, "Metaproperties retrieved successfully"), <<>>)
        ELSE Finish("getMetapropertyList", EmptyObject,
                    <<SdkCall("getMetaproperties", Str(ans))>>,
                    IF ans = "error"
                    THEN errorResponse("Failed to retrieve metaproperties",
                                       "METAPROPERTY_LIST_ERROR", 500)
                    ELSE successResponse(200, "Metaproperties retrieved successfully"),
                    <<>>)

\* exportAllMetaProperties of the metaproperty controller
exportAllMetaProperties ==
    /\ pc = "idle"
    /\ \E ans \in MetapropertiesAnswers, mock \in BOOLEAN :
        IF ~InstanceAvailable
        THEN Send500("exportAllMetaProperties", EmptyObject, "METAPROPERTY_EXPORT_ERROR")
        ELSE IF mock
        THEN Finish("exportAllMetaProperties", EmptyObject, <<>>,
                    successResponse(200, "Metaproperties export completed successfully"),
                    <<File("metaproperties", 1)>>)
        ELSE IF ans = "error"
        THEN Finish("exportAllMetaProperties", EmptyObject,
                    <<SdkCall("getMetaproperties", Str(ans))>>,
                    errorResponse("Failed to export metaproperty data",
                                  "METAPROPERTY_EXPORT_ERROR", 500), <<>>)
        ELSE IF ans \in {"nothing", "empty"}
        THEN Finish("exportAllMetaProperties", EmptyObject,
                    <<SdkCall("getMetaproperties", Str(ans))>>,
                    successResponse(404, "No metaproperties found to export"), <<>>)
        ELSE Finish("exportAllMetaProperties", EmptyObject,
                    <<SdkCall("getMetaproperties", Str(ans))>>,
                    successResponse(200, "Metaproperties export completed successfully"),
                    <<File("metaproperties", 1)>>)

\* what the fetch of the content access API can give
ContentAccessAnswers == {"ok", "notOk", "error"}

\* bynderInstance.api.token: none before the client-credentials grant has
\* answered and after it failed, else a token object with its access_token
TokenStates == {"none", "blank", "held"}

\* const token = bynderInstance?.api?.token?.token?.access_token
AccessToken(tk) == tk = "held"

\* a content access handler ends, having found the token tk
ContentAccessEnd(h, tk, calls, r) ==
    /\ pc = "idle"
    /\ handler' = h
    /\ apiToken' = tk
    /\ req' = EmptyObject
    /\ sdkCalls' = sdkCalls \o calls
    /\ res' = r
    /\ pc' = "done"
    /\ UNCHANGED <<fn, limitIn, queryParams, limit, apiQuery, page,
                   hasMoreItems, allMedia, upstream, catalogue, inflight, requests,
                   responses, result, bynderInstance, uploads, flatVars, utilVars,
                   exportVars>>

\* the content access handlers from the token on
ContentAccess(h, code, failed, tk, ans) ==
    IF ~AccessToken(tk)
    THEN ContentAccessEnd(h, tk, <<>>,
                errorResponse("Not authenticated with Bynder or could not retrieve token",
                              code, 500))
    ELSE ContentAccessEnd(h, tk, <<SdkCall("fetch", Str(ans))>>,
                IF ans = "ok"
                THEN successResponse(200, "Content access metaproperties retrieved successfully")
                ELSE errorResponse(failed, code, 500))

\* getMetapropertyList of the content access controller
getMetapropertyListCA ==
    /\ pc = "idle"
    /\ \E tk \in TokenStates, ans \in ContentAccessAnswers :
        IF ~InstanceAvailable
        THEN Send500("getMetapropertyListCA", EmptyObject,
                     "CONTENT_ACCESS_METAPROPERTY_LIST_ERROR")
        ELSE ContentAccess("getMetapropertyListCA",
                           "CONTENT_ACCESS_METAPROPERTY_LIST_ERROR",
                           "Failed to retrieve content access metaproperties",
                           tk, ans)

\* getMetapropertyById of the content access controller: the token is
\* read for the log before the try, which throws on an absent instance
\* and on an instance without a token object
getMetapropertyByIdCA ==
    /\ pc = "idle"
    /\ \E tk \in TokenStates, ans \in ContentAccessAnswers :
        IF bynderInstance = "absent"
        THEN Finish("getMetapropertyByIdCA", EmptyObject, <<>>, unhandledRejection, <<>>)
        ELSE IF tk = "none"
        THEN ContentAccessEnd("getMetapropertyByIdCA", tk, <<>>, unhandledRejection)
        ELSE ContentAccess("getMetapropertyByIdCA",
                           "CONTENT_ACCESS_METAPROPERTY_GET_ERROR",
                           "Failed to retrieve content access metaproperty",
                           tk, ans)

\* downloadExportedFile: the file of the name is there or not
downloadExportedFile ==
    /\ pc = "idle"
    /\ \E exists \in BOOLEAN :
        IF exists
        THEN Finish("downloadExportedFile", EmptyObject, <<>>, fileResponse, <<>>)
        ELSE Finish("downloadExportedFile", EmptyObject, <<>>,
                    errorResponse("File not found", "FILE_NOT_FOUND", 404), <<>>)

\* no fetch has started
FetchIdle ==
    /\ handler = "none"
    /\ fn = "none"
    /\ pc = "idle"
    /\ limitIn = Undefined
    /\ queryParams = EmptyObject
    /\ limit = Undefined
    /\ apiQuery = EmptyObject
    /\ page = 1
    /\ hasMoreItems = TRUE
    /\ allMedia = <<>>
    /\ upstream = <<>>
    /\ inflight = {}
    /\ requests = <<>>
    /\ responses = <<>>
    /\ result = <<>>

FetchInit == FetchIdle /\ catalogue = Paged

FlatIdle ==
    /\ records = <<>>
    /\ table = [columns |-> <<>>, rows |-> <<>>]
    /\ fpc = "ready"


SvcIdle ==
    /\ bynderInstance = "present"
    /\ apiToken = "unread"
    /\ req = EmptyObject
    /\ sdkCalls = <<>>
    /\ res = NoResponse
    /\ uploads = <<>>

UtilIdle ==
    /\ call = [f |-> "none"]
    /\ ret = Undefined

\* the files of the application before any export
RepoFiles == {<<"src", "index.js">>}

ExportIdle ==
    /\ now = 0
    /\ exports = <<>>
    /\ disk = RepoFiles
    /\ served = <<>>

\* the handler factories are given an instance, or none
SvcInit ==
    /\ bynderInstance \in {"present", "absent"}
    /\ apiToken = "unread"
    /\ req = EmptyObject
    /\ sdkCalls = <<>>
    /\ res = NoResponse
    /\ uploads = <<>>

Init == FetchInit /\ FlatIdle /\ SvcInit /\ UtilIdle /\ ExportIdle

Next ==
    \/ createMediaExporterA
    \/ getMediaListA
    \/ getMetaPropertiesListA
    \/ exportMetaPropertiesA
    \/ createMediaExporterB
    \/ getMediaListB
    \/ exportMetaPropertiesB
    \/ CallFetchMediaFromBynder
    \/ CallGetAllMediaItems
    \/ IssueA
    \/ PageA
    \/ ErrorA
    \/ IssueB
    \/ PageB
    \/ ErrorB
    \/ Return
    \/ createMediaExporterADone
    \/ getMediaListADone
    \/ getMetaPropertiesListADone
    \/ exportMetaPropertiesADone
    \/ createMediaExporterBDone
    \/ getMediaListBDone
    \/ exportMetaPropertiesBDone
    \/ getMediaByIdA
    \/ getMediaByIdB
    \/ getMetapropertyList
    \/ exportAllMetaProperties
    \/ getMetapropertyListCA
    \/ getMetapropertyByIdCA
    \/ downloadExportedFile

Spec == Init /\ [][Next]_vars

\* Spec with the scheduling of the event loop: an enabled turn of the loop
\* is taken, and every upstream call returns or fails in the end
LiveSpec ==
    /\ Spec
    /\ WF_vars(IssueA)
    /\ WF_vars(PageA \/ ErrorA)
    /\ WF_vars(IssueB)
    /\ WF_vars(PageB \/ ErrorB)
    /\ WF_vars(Return)

(***************************************************************************)
(* createXLSXFile: media items to rows and columns.                        *)
(* A media item is a JS object: a sequence of key/value fields in          *)
(* Object.keys order.  Besides the scalar values above a value may be an   *)
(* array or a nested object.  The keys of the model are names, not         *)
(* integers, so Object.keys order is the order of insertion.               *)
(***************************************************************************)
Arr(items) == [t |-> "array", a |-> items]
Obj(fields) == [t |-> "object", o |-> fields]
Field(k, v) == [k |-> k, v |-> v]

IsArray(v) == v.t = "array"

\* typeof v === 'object' (for a value that is not null: arrays and objects)
IsObjectType(v) == v.t \in {"array", "object", "null"}

RECURSIVE JoinWith(_, _)
RECURSIVE JsString(_)
\* String(v), the conversion Array.prototype.join applies to an element
JsString(v) ==
    CASE v.t = "num" -> ToString(v.n)
      [] v.t = "nan" -> "NaN"
      [] v.t = "str" -> v.s
      [] v.t = "bool" -> (IF v.n = 1 THEN "true" ELSE "false")
      [] v.t = "null" -> "null"
      [] v.t = "undefined" -> "undefined"
      [] v.t = "array" -> JoinWith(v.a, ",")
      [] v.t = "object" -> "[object Object]"

\* items.join(sep): null and undefined elements give the empty string
JoinWith(items, sep) ==
    IF items = <<>> THEN ""
    ELSE LET h == Head(items)
             hs == IF h.t \in {"null", "undefined"} THEN "" ELSE JsString(h)
         IN  IF Len(items) = 1 THEN hs ELSE hs \o sep \o JoinWith(Tail(items), sep)

RECURSIVE JsonFields(_, _)
RECURSIVE JsonItems(_)
RECURSIVE JsonStringify(_)
\* JSON.stringify(v), compact form
JsonStringify(v) ==
    CASE v.t = "num" -> ToString(v.n)
      [] v.t = "str" -> "\"" \o v.s \o "\""
      [] v.t = "bool" -> (IF v.n = 1 THEN "true" ELSE "false")
      [] v.t = "array" -> "[" \o JsonItems(v.a) \o "]"
      [] v.t = "object" -> "{" \o JsonFields(v.o, TRUE) \o "}"
      [] OTHER -> "null"

\* the elements of an array; undefined is written null
JsonItems(items) ==
    IF items = <<>> THEN ""
    ELSE JsonStringify(Head(items))
            \o (IF Len(items) = 1 THEN "" ELSE "," \o JsonItems(Tail(items)))

\* the fields of an object; a field whose value is undefined is left out
JsonFields(fields, first) ==
    IF fields = <<>> THEN ""
    ELSE LET f == Head(fields)
         IN  IF f.v.t = "undefined"
             THEN JsonFields(Tail(fields), first)
             ELSE (IF first THEN "" ELSE ",")
                    \o "\"" \o f.k \o "\":" \o JsonStringify(f.v)
                    \o JsonFields(Tail(fields), FALSE)

\* Object.keys(v) with the values: fields of an object, indices of an array
Entries(v) ==
    IF v.t = "array"
    THEN [i \in 1..Len(v.a) |-> Field(ToString(i - 1), v.a[i])]
    ELSE IF v.t = "object" THEN v.o ELSE <<>>

Keys(fields) == [i \in 1..Len(fields) |-> fields[i].k]

HasKey(fields, k) == \E i \in 1..Len(fields) : fields[i].k = k

\* rowData[k] = v: an existing key keeps its place, a new key goes last
SetCell(row, k, v) ==
    IF HasKey(row, k)
    THEN [i \in 1..Len(row) |-> IF row[i].k = k THEN Field(k, v) ELSE row[i]]
    ELSE Append(row, Field(k, v))

(***************************************************************************)
(* formatFileSize.                                                         *)
(***************************************************************************)
Sizes == <<"Bytes", "KB", "MB", "GB", "TB">>

Kilo == 1024

RECURSIVE Pow(_, _)
Pow(b, e) == IF e = 0 THEN 1 ELSE b * Pow(b, e - 1)

RECURSIVE Log1024(_)
\* Math.floor(Math.log(bytes) / Math.log(1024)) for bytes >= 1
Log1024(b) == IF b < Kilo THEN 0 ELSE 1 + Log1024(b \div Kilo)

\* parseFloat(x.toFixed(2)) written out, x given as h hundredths
TwoDecimals(h) ==
    LET whole == ToString(h \div 100)
        frac == h % 100
    IN  IF frac = 0 THEN whole
        ELSE IF frac % 10 = 0 THEN whole \o "." \o ToString(frac \div 10)
        ELSE IF frac < 10 THEN whole \o ".0" \o ToString(frac)
        ELSE whole \o "." \o ToString(frac)

\* Number(v): a string of the model is not numeric unless it is empty
RECURSIVE ToNumber(_)
ToNumber(v) ==
    CASE v.t = "num" -> v
      [] v.t = "bool" -> Num(v.n)
      [] v.t = "null" -> Num(0)
      [] v.t = "str" -> (IF v.s = "" THEN Num(0) ELSE NaN)
      [] v.t = "array" ->
            (IF v.a = <<>> THEN Num(0)
             ELSE IF Len(v.a) > 1 THEN NaN
             ELSE IF v.a[1].t \in {"null", "undefined"} THEN Num(0)
             ELSE ToNumber(v.a[1]))
      [] OTHER -> NaN

\* formatFileSize(bytes), bytes any value of the model (the numbers are
\* integers): '' for a falsy value, 0 included, and for a value isNaN holds
\* of; below 1 the logarithm is negative or NaN and no unit is found
formatFileSize(v) ==
    IF ~Truthy(v) \/ ToNumber(v) = NaN THEN Str("")
    ELSE LET n == ToNumber(v).n
         IN  IF n < 1 THEN Str("NaN undefined")
             ELSE LET i == Log1024(n)
                      unit == Pow(Kilo, i)
                      h == (n * 200 + unit) \div (2 * unit)
                  IN  Str(TwoDecimals(h) \o " "
                            \o (IF i + 1 \in DOMAIN Sizes THEN Sizes[i + 1]
                                ELSE "undefined"))

(***************************************************************************)
(* The row of one media item (the callback of mediaItems.map).             *)
(***************************************************************************)
RECURSIVE ExpandThumbnails(_, _)
\* rowData[`thumbnails_${thumbSize}`] = value[thumbSize], for every size
ExpandThumbnails(entries, row) ==
    IF entries = <<>> THEN row
    ELSE ExpandThumbnails(Tail(entries),
            SetCell(row, "thumbnails_" \o Head(entries).k, Head(entries).v))

\* the cell of one property of a nested object
SubCell(v) ==
    IF IsArray(v) THEN Str(JoinWith(v.a, ", "))
    ELSE IF v.t = "object" THEN Str(JsonStringify(v))
    ELSE v

RECURSIVE ExpandObject(_, _, _)
\* rowData[`${key}_${subKey}`] = ..., for every property of the object
ExpandObject(key, entries, row) ==
    IF entries = <<>> THEN row
    ELSE ExpandObject(key, Tail(entries),
            SetCell(row, key \o "_" \o Head(entries).k, SubCell(Head(entries).v)))

\* the body of Object.keys(item).forEach for one key
FlattenField(row, key, value) ==
    IF value.t \in {"null", "undefined"} THEN SetCell(row, key, Str(""))
    ELSE IF key \in PropertyKeys
    THEN IF IsArray(value) THEN SetCell(row, key, Str(JoinWith(value.a, ", ")))
         ELSE IF IsObjectType(value) THEN SetCell(row, key, Str(JsonStringify(value)))
         ELSE SetCell(row, key, value)
    ELSE IF key = "fileSize" THEN SetCell(row, key, formatFileSize(value))
    ELSE IF key = "tags" /\ IsArray(value)
    THEN SetCell(row, key, Str(JoinWith(value.a, ", ")))
    ELSE IF key = "thumbnails" /\ IsObjectType(value)
    THEN ExpandThumbnails(Entries(value), row)
    ELSE IF IsObjectType(value) /\ ~IsArray(value)
    THEN ExpandObject(key, Entries(value), row)
    ELSE IF IsArray(value) THEN SetCell(row, key, Str(JoinWith(value.a, ", ")))
    ELSE SetCell(row, key, value)

RECURSIVE FlattenFields(_, _)
FlattenFields(fields, row) ==
    IF fields = <<>> THEN row
    ELSE FlattenFields(Tail(fields), FlattenField(row, Head(fields).k, Head(fields).v))

\* rowData of one item
FlattenItem(item) == FlattenFields(item, <<>>)

RECURSIVE AddColumns(_, _)
\* the keys of one row added to the header, each where it is first seen
AddColumns(cols, keys) ==
    IF keys = <<>> THEN cols
    ELSE AddColumns(IF \E i \in 1..Len(cols) : cols[i] = Head(keys)
                    THEN cols ELSE Append(cols, Head(keys)),
                    Tail(keys))

\* mutant: the header is taken from the first row alone
ColumnsOfFirstRow(rows) == IF rows = <<>> THEN <<>> ELSE Keys(rows[1])

RECURSIVE Columns(_)
\* the header XLSX.utils.json_to_sheet gives the sheet (and the order of
\* the keys of colWidths): the keys of all rows in order of first appearance
Columns(rows) ==
    IF rows = <<>> THEN <<>>
    ELSE AddColumns(Columns(SubSeq(rows, 1, Len(rows) - 1)), Keys(rows[Len(rows)]))

\* the media items the model flattens
ItemCatalogue ==
    {<<>>,
     <<Field("a", Num(1))>>,
     <<Field("b", Num(2))>>,
     <<Field("b", Str("x")), Field("a", Null)>>,
     <<Field("id", Str("m1")), Field("tags", Arr(<<Str("t1"), Num(2), Null>>)),
       Field("fileSize", Num(1536))>>,
     <<Field("thumbnails", Obj(<<Field("mini", Str("u1")), Field("webimage", Null)>>)),
       Field("property_Color", Arr(<<Str("red"), Str("blue")>>)),
       Field("active", Bool(TRUE))>>,
     <<Field("meta", Obj(<<Field("w", Num(7)), Field("list", Arr(<<Num(1), Num(2)>>)),
                           Field("inner", Obj(<<Field("x", Num(1))>>))>>)),
       Field("meta_w", Str("top")), Field("ids", Arr(<<Str("p"), Str("q")>>))>>,
     <<Field("thumbnails", Arr(<<Str("u1"), Str("u2")>>))>>}

Batches == UNION {[1..n -> ItemCatalogue] : n \in 0..MaxRecords}

\* createXLSXFile: every item to its row, then the sheet
createXLSXFile ==
    /\ fpc = "ready"
    /\ LET rows == [i \in 1..Len(records) |-> FlattenItem(records[i])]
       IN  table' = [columns |-> Columns(rows), rows |-> rows]
    /\ fpc' = "done"
    /\ UNCHANGED records
    /\ UNCHANGED <<fetchVars, svcVars, utilVars, exportVars>>

\* the flattener on its own: any batch of catalogue items, flattened once
FlatInit ==
    /\ FetchInit
    /\ SvcIdle
    /\ UtilIdle
    /\ ExportIdle
    /\ records \in Batches
    /\ table = [columns |-> <<>>, rows |-> <<>>]
    /\ fpc = "ready"

FlatNext == createXLSXFile

FlatSpec == FlatInit /\ [][FlatNext]_vars

(***************************************************************************)
(* The utilities on their own: a function of the controllers is applied    *)
(* once to an argument of the caller's choice.                             *)
(***************************************************************************)
MaxBytes == 1100   \* every byte count up to this one is tried

Pending == [t |-> "pending"]

\* byte counts beyond the dense range: around one and a half KB, MB sizes
LargeSizes == {1535, 1536, 1537, 2048, 10240, 1048575, 1048576, 1572864, 5000000}

\* the fileSize values of the model: absent, not a number, a byte count
SizeInputs ==
    {Undefined, Null, NaN, Str(""), Str("abc"), Bool(FALSE)}
        \cup {Num(k) : k \in (0..MaxBytes) \cup LargeSizes}

\* formatFileSize(bytes)
CallFormatFileSize ==
    /\ call.f = "formatFileSize"
    /\ ret = Pending
    /\ ret' = formatFileSize(call.arg)
    /\ UNCHANGED <<call, fetchVars, flatVars, svcVars, exportVars>>


(***************************************************************************)
(* slugifyDomain.  A string is the sequence of its characters.             *)
(***************************************************************************)
MaxDomainLen == 3   \* every domain string up to this length is tried

Lowers == <<"a", "b", "c", "d", "e", "f", "g", "h", "i", "j", "k", "l", "m",
            "n", "o", "p", "q", "r", "s", "t", "u", "v", "w", "x", "y", "z">>

Uppers == <<"A", "B", "C", "D", "E", "F", "G", "H", "I", "J", "K", "L", "M",
            "N", "O", "P", "Q", "R", "S", "T", "U", "V", "W", "X", "Y", "Z">>

Range(f) == {f[i] : i \in DOMAIN f}

\* c.toLowerCase()
ToLowerCase(c) ==
    IF c \in Range(Uppers)
    THEN Lowers[CHOOSE i \in DOMAIN Uppers : Uppers[i] = c]
    ELSE c

\* [a-z0-9-] under the flag i
IsSlugChar(c) ==
    c \in Range(Lowers) \cup Range(Uppers) \cup Range(Digits) \cup {"-"}

\* [\._\s]
IsSeparator(c) == c \in {".", "_", " "}

StartsWith(cs, pre) == Len(cs) >= Len(pre) /\ SubSeq(cs, 1, Len(pre)) = pre

EndsWith(cs, suf) ==
    Len(cs) >= Len(suf) /\ SubSeq(cs, Len(cs) - Len(suf) + 1, Len(cs)) = suf

DropFirst(cs, n) == SubSeq(cs, n + 1, Len(cs))

DropLast(cs, n) == SubSeq(cs, 1, Len(cs) - n)

\* domainUrl.replace(/^https?:\/\//, '')
StripProtocol(cs) ==
    IF StartsWith(cs, <<"h", "t", "t", "p", "s", ":", "/", "/">>) THEN DropFirst(cs, 8)
    ELSE IF StartsWith(cs, <<"h", "t", "t", "p", ":", "/", "/">>) THEN DropFirst(cs, 7)
    ELSE cs

RECURSIVE UpToSlash(_)
\* domain.split('/')[0]
UpToSlash(cs) ==
    IF cs = <<>> \/ Head(cs) = "/" THEN <<>>
    ELSE <<Head(cs)>> \o UpToSlash(Tail(cs))

\* the suffixes of /\.(com|org|net|io|biz|co|dev)$/
TldSuffixes ==
    {<<".", "c", "o", "m">>, <<".", "o", "r", "g">>, <<".", "n", "e", "t">>,
     <<".", "i", "o">>, <<".", "b", "i", "z">>, <<".", "c", "o">>,
     <<".", "d", "e", "v">>}

RECURSIVE UpToDot(_)
\* a slip of the suffix pattern: everything from the first dot is removed
UpToDot(cs) ==
    IF cs = <<>> \/ Head(cs) = "." THEN <<>>
    ELSE <<Head(cs)>> \o UpToDot(Tail(cs))

\* domain.replace(/\.(com|org|net|io|biz|co|dev)$/, '')
StripTld(cs) ==
    IF \E suf \in TldSuffixes : EndsWith(cs, suf)
    THEN DropLast(cs, Len(CHOOSE suf \in TldSuffixes : EndsWith(cs, suf)))
    ELSE cs

RECURSIVE DashSeparators(_)
\* domain.replace(/[\._\s]+/g, '-'): every run of separators becomes one dash
DashSeparators(cs) ==
    IF cs = <<>> THEN <<>>
    ELSE IF IsSeparator(Head(cs))
         THEN IF Len(cs) > 1 /\ IsSeparator(cs[2])
              THEN DashSeparators(Tail(cs))
              ELSE <<"-">> \o DashSeparators(Tail(cs))
         ELSE <<Head(cs)>> \o DashSeparators(Tail(cs))

\* domain.replace(/[^a-z0-9-]/gi, '').toLowerCase()
KeepSlugChars(cs) ==
    LET kept == SelectSeq(cs, IsSlugChar)
    IN  [i \in 1..Len(kept) |-> ToLowerCase(kept[i])]

RECURSIVE TrimLeadingDashes(_)
TrimLeadingDashes(cs) ==
    IF cs # <<>> /\ Head(cs) = "-" THEN TrimLeadingDashes(Tail(cs)) ELSE cs

RECURSIVE TrimTrailingDashes(_)
TrimTrailingDashes(cs) ==
    IF cs # <<>> /\ cs[Len(cs)] = "-" THEN TrimTrailingDashes(DropLast(cs, 1)) ELSE cs

\* domain.replace(/^-+|-+$/g, '')
TrimDashes(cs) == TrimTrailingDashes(TrimLeadingDashes(cs))

Unknown == <<"u", "n", "k", "n", "o", "w", "n">>

\* a string argument, and the arguments null and undefined
Chars(cs) == [t |-> "chars", cs |-> cs]

\* slugifyDomain(domainUrl): the slug, a string
slugifyDomain(v) ==
    IF v.t # "chars" \/ v.cs = <<>> THEN Chars(Unknown)
    ELSE Chars(TrimDashes(KeepSlugChars(DashSeparators(
                    StripTld(UpToSlash(StripProtocol(v.cs)))))))

PortalUrl ==
    <<"h", "t", "t", "p", "s", ":", "/", "/", "M", "y", "-", "P", "o", "r", "t",
      "a", "l", ".", "g", "e", "t", "b", "y", "n", "d", "e", "r", ".", "c", "o",
      "m", "/">>

DomainAlphabet == {"a", "B", "7", ".", "/", "-", "_", " ", "!"}

DomainInputs ==
    {Null, Undefined, Chars(PortalUrl),
     Chars(<<"d", "e", "f", "a", "u", "l", "t">>),
     Chars(<<"h", "t", "t", "p", ":", "/", "/", "a", ".", "i", "o", "/", "x", ".", "c", "o", "m">>),
     Chars(<<"a", ".", "c", "o", "m", ".", "o", "r", "g">>),
     Chars(<<"x", ".", "c", "o">>),
     Chars(<<"f", "t", "p", ":", "/", "/", "a", "_", "_", "b", ".", "d", "e", "v">>)}
        \cup {Chars(cs) : cs \in UNION {[1..n -> DomainAlphabet] : n \in 0..MaxDomainLen}}

\* slugifyDomain(domainUrl)
CallSlugifyDomain ==
    /\ call.f = "slugifyDomain"
    /\ ret = Pending
    /\ ret' = slugifyDomain(call.arg)
    /\ UNCHANGED <<call, fetchVars, flatVars, svcVars, exportVars>>


(***************************************************************************)
(* The metaproperty sheets.  A JS object is a sequence of fields, a sheet  *)
(* the sequence of its rows, a row a sequence of fields.                   *)
(***************************************************************************)
MaxProperties == 2   \* metaproperties of an upstream mapping at most
MaxItems == 2        \* media items the options are extracted from at most

\* a || b
Or(a, b) == IF Truthy(a) THEN a ELSE b

\* the value stored under key k in a sequence of fields, undefined if none
Cell(fields, k) ==
    IF HasKey(fields, k)
    THEN fields[CHOOSE i \in 1..Len(fields) : fields[i].k = k].v
    ELSE Undefined

\* v.k for a value that is not null or undefined
Prop(v, k) == IF v.t = "object" THEN Cell(v.o, k) ELSE Undefined

\* flag ? 'Yes' : 'No'
YesNo(v) == IF Truthy(v) THEN Str("Yes") ELSE Str("No")

\* metapropertyController.js: the row of one metaproperty
MetapropertyRow(key, property) ==
    <<Field("ID", Or(Prop(property, "id"), Str(key))),
      Field("Name", Or(Prop(property, "name"), Str(key))),
      Field("Label", Or(Prop(property, "label"),
                        Or(Prop(property, "name"), Str(key)))),
      Field("Type", Or(Prop(property, "type"), Str(""))),
      Field("IsMultiselect", YesNo(Prop(property, "isMultiselect"))),
      Field("IsRequired", YesNo(Prop(property, "isRequired"))),
      Field("IsFilterable", YesNo(Prop(property, "isFilterable"))),
      Field("ZIndex", Or(Prop(property, "zindex"), Str(""))),
      Field("Total Count", Or(Prop(Prop(property, "count"), "total"), Str("")))>>

\* a slip of the reference: the option row names the option's own key
OptionRowOfItself(key, property, optionKey, option) ==
    <<Field("ID", Or(Prop(option, "id"), Str(optionKey))),
      Field("Label", Or(Prop(option, "label"), Str(optionKey))),
      Field("ZIndex", Or(Prop(option, "zindex"), Str(""))),
      Field("Count", Or(Prop(option, "count"), Str(""))),
      Field("Metaproperty Name", Or(Prop(property, "name"), Str(key))),
      Field("Metaproperty ID", Or(Prop(option, "id"), Str(optionKey)))>>

\* metapropertyController.js: the row of one option of a metaproperty
OptionRow(key, property, optionKey, option) ==
    <<Field("ID", Or(Prop(option, "id"), Str(optionKey))),
      Field("Label", Or(Prop(option, "label"), Str(optionKey))),
      Field("ZIndex", Or(Prop(option, "zindex"), Str(""))),
      Field("Count", Or(Prop(option, "count"), Str(""))),
      Field("Metaproperty Name", Or(Prop(property, "name"), Str(key))),
      Field("Metaproperty ID", Or(Prop(property, "id"), Str(key)))>>

\* the option rows of one metaproperty, none when property.options is falsy
OptionRows(key, property) ==
    LET options == Prop(property, "options")
        entries == Entries(options)
    IN  IF Truthy(options)
        THEN [i \in 1..Len(entries) |->
                OptionRow(key, property, entries[i].k, entries[i].v)]
        ELSE <<>>

RECURSIVE AllOptionRows(_)
AllOptionRows(entries) ==
    IF entries = <<>> THEN <<>>
    ELSE OptionRows(Head(entries).k, Head(entries).v) \o AllOptionRows(Tail(entries))

\* createMetaPropertiesXLSX of metapropertyController.js: the two sheets
createMetaPropertiesXLSXAll(metaproperties) ==
    LET entries == Entries(metaproperties)
    IN  [metapropertiesData |->
            [i \in 1..Len(entries) |-> MetapropertyRow(entries[i].k, entries[i].v)],
         optionsData |-> AllOptionRows(entries)]

\* the options an upstream metaproperty of the model may carry
OptionSets ==
    {Undefined, Null, Obj(<<>>),
     Obj(<<Field("o1", Obj(<<Field("id", Str("o1")), Field("label", Str("Red")),
                             Field("zindex", Num(1)), Field("count", Num(0))>>))>>),
     Obj(<<Field("o1", Obj(<<Field("label", Str("Red"))>>)),
           Field("o2", Obj(<<Field("id", Str("o2"))>>))>>)}

\* the upstream metaproperties of the model: with and without an id
PropertyCatalogue ==
    {Obj(<<Field("id", i), Field("name", n), Field("isRequired", Bool(TRUE)),
           Field("count", Obj(<<Field("total", Num(5))>>)), Field("options", os)>>) :
        i \in {Undefined, Str("p1"), Str("p2")}, n \in {Undefined, Str("Color")},
        os \in OptionSets}

MetapropertyKeys == <<"p1", "p2", "p3", "p4">>

\* the upstream mappings of the model: up to MaxProperties keys, in order
MetapropertyMappings ==
    UNION {{Obj([i \in 1..n |-> Field(MetapropertyKeys[i], ps[i])]) :
                ps \in [1..n -> PropertyCatalogue]} : n \in 0..MaxProperties}

\* createMetaPropertiesXLSX(metaproperties, filename), the sheets it builds
CallCreateMetaPropertiesXLSXAll ==
    /\ call.f = "createMetaPropertiesXLSXAll"
    /\ ret = Pending
    /\ ret' = createMetaPropertiesXLSXAll(call.arg)
    /\ UNCHANGED <<call, fetchVars, flatVars, svcVars, exportVars>>


(***************************************************************************)
(* extractMetaProperties and createMetaPropertiesXLSX of                   *)
(* mediaController.js: the properties and options found in media items.    *)
(***************************************************************************)
\* key.startsWith('property_'), over the field names of the model
IsPropertyKey(k) == k \in {"property_Color", "property_Asset_Type"}

\* propertyName.replace('property_', '').replace(/_/g, ' '), tabulated
PropertyNameOf(k) ==
    CASE k = "property_Color" -> "Color"
      [] k = "property_Asset_Type" -> "Asset Type"

\* the key a value takes as a property name of an object
KeyOf(v) == JsString(v)

\* set.add(v): a value already in the set keeps its place
SetAdd(values, v) ==
    IF \E i \in 1..Len(values) : values[i] = v THEN values ELSE Append(values, v)

\* properties[propertyName].values.add(v)
AddValue(st, propertyName, v) ==
    LET property == Cell(st.properties, propertyName)
        added == [property EXCEPT !.values = SetAdd(@, v)]
    IN  [st EXCEPT !.properties = SetCell(@, propertyName, added)]

\* a slip of the option table: an option already stored is not overwritten
StoreOptionOnce(st, propertyName, val) ==
    LET optionId == Or(Prop(val, "id"), Str(JsonStringify(val)))
        label == Or(Prop(val, "label"), Str(JsonStringify(val)))
    IN  IF HasKey(st.propertyOptions, KeyOf(optionId)) THEN st
        ELSE [st EXCEPT !.propertyOptions =
                SetCell(@, KeyOf(optionId),
                        [id |-> optionId, label |-> label,
                         parentProperty |-> Str(propertyName)])]

\* propertyOptions[optionId] = { id, label, parentProperty }
StoreOption(st, propertyName, val) ==
    LET optionId == Or(Prop(val, "id"), Str(JsonStringify(val)))
        label == Or(Prop(val, "label"), Str(JsonStringify(val)))
    IN  [st EXCEPT !.propertyOptions =
            SetCell(@, KeyOf(optionId),
                    [id |-> optionId, label |-> label,
                     parentProperty |-> Str(propertyName)])]

\* one value of a property_ field: an object is an option, the rest a value
ExtractValue(st, propertyName, val) ==
    IF val.t \in {"null", "undefined"} THEN st
    ELSE IF val.t \in {"array", "object"}
         THEN StoreOption(
                AddValue(st, propertyName,
                         Or(Prop(val, "label"), Str(JsonStringify(val)))),
                propertyName, val)
         ELSE AddValue(st, propertyName, val)

RECURSIVE ExtractValues(_, _, _)
\* propertyValue.forEach(val => ...)
ExtractValues(st, propertyName, vals) ==
    IF vals = <<>> THEN st
    ELSE ExtractValues(ExtractValue(st, propertyName, Head(vals)),
                       propertyName, Tail(vals))

\* one field of an item
ExtractField(st, key, value) ==
    IF ~IsPropertyKey(key) THEN st
    ELSE LET known ==
                IF HasKey(st.properties, key) THEN st
                ELSE [st EXCEPT !.properties =
                        SetCell(@, key, [id |-> Str(key),
                                         name |-> Str(PropertyNameOf(key)),
                                         values |-> <<>>])]
         IN  IF IsArray(value) THEN ExtractValues(known, key, value.a)
             ELSE ExtractValue(known, key, value)

RECURSIVE ExtractFields(_, _)
ExtractFields(st, fields) ==
    IF fields = <<>> THEN st
    ELSE ExtractFields(ExtractField(st, Head(fields).k, Head(fields).v), Tail(fields))

RECURSIVE ExtractItems(_, _)
ExtractItems(st, items) ==
    IF items = <<>> THEN st
    ELSE ExtractItems(ExtractFields(st, Entries(Head(items))), Tail(items))

\* extractMetaProperties(mediaItems), mediaItems an array of objects
extractMetaProperties(mediaItems) ==
    ExtractItems([properties |-> <<>>, propertyOptions |-> <<>>], mediaItems.a)

\* createMetaPropertiesXLSX(properties, propertyOptions, filename): the sheets
createMetaPropertiesXLSX(properties, propertyOptions) ==
    [propertiesData |->
        [i \in 1..Len(properties) |->
            <<Field("ID", Or(properties[i].v.id, Str(""))),
              Field("Name", Or(properties[i].v.name, Str(""))),
              Field("Values", Str(JoinWith(properties[i].v.values, ", ")))>>],
     optionsData |->
        [i \in 1..Len(propertyOptions) |->
            <<Field("ID", Or(propertyOptions[i].v.id, Str(""))),
              Field("Label", Or(propertyOptions[i].v.label, Str(""))),
              Field("Parent Property", Or(propertyOptions[i].v.parentProperty, Str("")))>>]]

\* the media items the options are extracted from
PropertyItems ==
    {Obj(<<>>),
     Obj(<<Field("id", Str("m1")),
           Field("property_Color",
                 Arr(<<Obj(<<Field("id", Str("o1")), Field("label", Str("Red"))>>),
                       Obj(<<Field("id", Str("o2")), Field("label", Str("Blue"))>>)>>))>>),
     Obj(<<Field("property_Color", Arr(<<Str("red"), Str("blue"), Str("red")>>)),
           Field("name", Str("n"))>>),
     Obj(<<Field("property_Asset_Type",
                 Obj(<<Field("id", Str("o1")), Field("label", Str("Photo"))>>))>>),
     Obj(<<Field("property_Asset_Type",
                 Arr(<<Obj(<<Field("label", Str("NoId"))>>), Null, Num(3)>>))>>),
     Obj(<<Field("property_Color", Null), Field("property_Asset_Type", Str("stock"))>>),
     Obj(<<Field("property_Color", Obj(<<Field("id", Str("o3"))>>)),
           Field("property_Asset_Type", Arr(<<Obj(<<Field("id", Str("o4"))>>)>>))>>)}

PropertyBatches ==
    {Arr(items) : items \in UNION {[1..n -> PropertyItems] : n \in 0..MaxItems}}

\* exportMetaProperties, after the fetch: extract, then build the sheets
CallExtractMetaProperties ==
    /\ call.f = "extractMetaProperties"
    /\ ret = Pending
    /\ LET extracted == extractMetaProperties(call.arg)
       IN  ret' = createMetaPropertiesXLSX(extracted.properties,
                                           extracted.propertyOptions)
    /\ UNCHANGED <<call, fetchVars, flatVars, svcVars, exportVars>>

(***************************************************************************)
(* The specification of the utilities.                                     *)
(***************************************************************************)
UtilCalls ==
    {[f |-> "formatFileSize", arg |-> v] : v \in SizeInputs}
        \cup {[f |-> "slugifyDomain", arg |-> v] : v \in DomainInputs}
        \cup {[f |-> "createMetaPropertiesXLSXAll", arg |-> v] : v \in MetapropertyMappings}
        \cup {[f |-> "extractMetaProperties", arg |-> v] : v \in PropertyBatches}

UtilInit ==
    /\ FetchInit
    /\ FlatIdle
    /\ SvcIdle
    /\ ExportIdle
    /\ call \in UtilCalls
    /\ ret = Pending

UtilNext ==
    \/ CallFormatFileSize
    \/ CallSlugifyDomain
    \/ CallCreateMetaPropertiesXLSXAll
    \/ CallExtractMetaProperties

UtilSpec == UtilInit /\ [][UtilNext]_vars

(***************************************************************************)
(* Export requests in flight together.  A handler computes its default     *)
(* filename from Date.now() when it starts, awaits the upstream, and       *)
(* writes the artifact afterwards; other requests start and write in       *)
(* between.  The clock counts milliseconds.                                *)
(***************************************************************************)
MaxClock == 2     \* milliseconds the clock advances at most
MaxExports == 3   \* export requests handled at most

\* media-, meta-properties-, metaproperties-: the prefixes of the defaults
ExportPrefixes == {"media", "meta-properties", "metaproperties"}

\* the names a caller sends as the filename parameter
CustomNames == {"report.xlsx"}

\* const { filename = defaultFilename } = req.query
ExportFilenames ==
    {DefaultFilename(p) : p \in ExportPrefixes} \cup
    {CustomFilename(n) : n \in CustomNames}

\* Date.now() of a later call
Tick ==
    /\ now < MaxClock
    /\ now' = now + 1
    /\ UNCHANGED <<fetchVars, flatVars, svcVars, utilVars, exports, pathVars>>

\* an export handler up to its first await
StartExport ==
    /\ Len(exports) < MaxExports
    /\ \E f \in ExportFilenames :
        exports' = Append(exports, [filename |-> f, state |-> "fetching"])
    /\ UNCHANGED <<fetchVars, flatVars, svcVars, utilVars, now, pathVars>>

\* an export handler after the fetch, with items: XLSX.writeFile(workbook,
\* path.join(uploadsDir, filename))
WriteExport ==
    \E i \in 1..Len(exports) :
        /\ exports[i].state = "fetching"
        /\ exports' = [exports EXCEPT ![i].state = "written"]
        /\ uploads' = Append(uploads, [filename |-> exports[i].filename, rows |-> 1])
        /\ UNCHANGED <<fetchVars, flatVars, utilVars, now, bynderInstance, apiToken,
                       req, sdkCalls, res, pathVars>>

\* an export handler after the fetch, without items: nothing is written
EndExportEmpty ==
    \E i \in 1..Len(exports) :
        /\ exports[i].state = "fetching"
        /\ exports' = [exports EXCEPT ![i].state = "empty"]
        /\ UNCHANGED <<fetchVars, flatVars, svcVars, utilVars, now, pathVars>>

ExportInit == FetchInit /\ FlatIdle /\ SvcIdle /\ UtilIdle /\ ExportIdle

ExportNext ==
    \/ Tick
    \/ StartExport
    \/ WriteExport
    \/ EndExportEmpty

ExportSpec == ExportInit /\ [][ExportNext]_vars

(***************************************************************************)
(* The fetch against a listing that serves pages of the requested size     *)
(* out of one fixed list, and never fails.                                 *)
(***************************************************************************)
MaxListed == 250   \* items of the fixed list, and items asked for, at most

ListTotals == {0, 1, PageSize, PageSize + 50, 2 * PageSize, MaxListed}

ListLimits ==
    {1, 2, PageSize, PageSize + 1, PageSize + 50, 2 * PageSize, MaxListed}

\* fetchMediaFromBynder called with a limit
CallFetchMediaFromBynderSized ==
    /\ pc = "idle"
    /\ \E l \in ListLimits :
        EnterA("direct", EmptyObject, [limit |-> Num(l)], <<>>)

\* getAllMediaItems called with a limit and no filters
CallGetAllMediaItemsSized ==
    /\ pc = "idle"
    /\ \E l \in ListLimits :
        EnterB("direct", EmptyObject, Num(l), EmptyObject, <<>>)

ListInit ==
    /\ FetchIdle
    /\ catalogue \in {SizedList(t) : t \in ListTotals}
    /\ FlatIdle /\ SvcIdle /\ UtilIdle /\ ExportIdle

ListNext ==
    \/ CallFetchMediaFromBynderSized
    \/ CallGetAllMediaItemsSized
    \/ IssueA
    \/ PageA
    \/ IssueB
    \/ PageB
    \/ Return

ListSpec == ListInit /\ [][ListNext]_vars

(***************************************************************************)
(* Exports and downloads by filename.  A path is the sequence of its       *)
(* segments below the root of the application; a filename parameter is     *)
(* the sequence of the segments between its slashes.                       *)
(***************************************************************************)
MaxHandled == 2   \* exports and downloads handled at most

\* const uploadsDir = path.join(__dirname, '..', 'uploads')
uploadsDir == <<"src", "uploads">>

\* the directories there are; fs.ensureDirSync(uploadsDir) made the last
Directories == {<<>>, <<"src">>, <<"src", "controllers">>, uploadsDir}

\* the filename parameters a caller sends
PathNames ==
    {<<"report.xlsx">>, <<"..", "report.xlsx">>, <<"sub", "report.xlsx">>,
     <<"..", "index.js">>}

RECURSIVE Normalize(_, _)
\* path.normalize: a segment ".." takes the segment before it away
Normalize(done, segs) ==
    IF segs = <<>> THEN done
    ELSE IF Head(segs) \in {"", "."} THEN Normalize(done, Tail(segs))
    ELSE IF Head(segs) = ".."
    THEN Normalize(IF done = <<>> THEN <<>> ELSE SubSeq(done, 1, Len(done) - 1),
                   Tail(segs))
    ELSE Normalize(Append(done, Head(segs)), Tail(segs))

\* path.join(dir, name)
Join(dir, name) == Normalize(<<>>, dir \o name)

\* path.basename(p)
Basename(p) == IF p = <<>> THEN "" ELSE p[Len(p)]

\* path.dirname(p)
Dirname(p) == IF p = <<>> THEN <<>> ELSE SubSeq(p, 1, Len(p) - 1)

\* `media-${instanceSlug}-${Date.now()}.xlsx`, with BYNDER_DOMAIN not set
DefaultName(prefix) == prefix \o "-default-" \o ToString(now) \o ".xlsx"

\* the filename of an export: the parameter, or the default
ExportNames == PathNames \cup {<<DefaultName(p)>> : p \in ExportPrefixes}

\* an export handler of the first revision with items to write:
\* createXLSXFile writes path.join(uploadsDir, filename), and the answer
\* names path.basename(filePath); a write into no directory throws and
\* the handler answers 500
ExportToFile ==
    /\ Len(served) < MaxHandled
    /\ \E name \in ExportNames :
        LET filePath == Join(uploadsDir, name)
        IN  IF Dirname(filePath) \in Directories
            THEN /\ disk' = disk \cup {filePath}
                 /\ served' = Append(served,
                        [op |-> "export", ok |-> TRUE, name |-> name,
                         path |-> filePath, filename |-> Basename(filePath)])
            ELSE /\ disk' = disk
                 /\ served' = Append(served,
                        [op |-> "export", ok |-> FALSE, name |-> name,
                         path |-> filePath, filename |-> ""])
    /\ UNCHANGED <<fetchVars, flatVars, svcVars, utilVars, now, exports>>

\* the filename parameters of GET /download/:filename: the names exports
\* answered with, and any other name
DownloadNames ==
    PathNames \cup {<<served[i].filename>> : i \in 1..Len(served)}

\* downloadExportedFile
DownloadFile ==
    /\ Len(served) < MaxHandled
    /\ \E name \in DownloadNames :
        LET filePath == Join(uploadsDir, name)
        IN  served' = Append(served,
                [op |-> "download", ok |-> filePath \in disk, name |-> name,
                 path |-> filePath, filename |-> Basename(filePath)])
    /\ UNCHANGED <<fetchVars, flatVars, svcVars, utilVars, now, exports, disk>>

PathInit == FetchInit /\ FlatIdle /\ SvcIdle /\ UtilIdle /\ ExportIdle

PathNext ==
    \/ Tick
    \/ ExportToFile
    \/ DownloadFile

PathSpec == PathInit /\ [][PathNext]_vars


(***************************************************************************)
(* Notions the properties of the fetch are stated with.                    *)
(***************************************************************************)
Finished == pc \in {"returned", "thrown"}

PositiveLimit == limitIn.t = "num" /\ limitIn.n >= 1

OnePageLimit == limitIn.t = "num" /\ limitIn.n \in 1..PageSize

\* the page served as i-th answer (empty when the i-th request failed)
Served(i) == IF responses[i] THEN UpstreamAnswer(requests[i]) ELSE <<>>

RECURSIVE ServedUpTo(_)
\* the pages served in answers 1..n, one after the other
ServedUpTo(n) == IF n = 0 THEN <<>> ELSE ServedUpTo(n - 1) \o Served(n)

SomeFailure == \E i \in 1..Len(responses) : ~responses[i]

\* the first empty page of the upstream listing
FirstEmptyPage == CHOOSE n \in 1..(Len(upstream) + 1) :
    /\ UpstreamPage(n) = <<>>
    /\ \A m \in 1..(n - 1) : UpstreamPage(m) # <<>>

RECURSIVE PagesUpTo(_)
\* pages 1..n of the upstream listing, one after the other
PagesUpTo(n) == IF n = 0 THEN <<>> ELSE PagesUpTo(n - 1) \o UpstreamPage(n)

ReservedKeys == {"page", "limit", "total"}

(***************************************************************************)
(* C1.  For every limit <= 0 (0 included) a fetch returns an empty         *)
(* sequence and issues no upstream getMediaList call.                      *)
(* fetchMediaFromBynder reads limit 0 as "no limit given" and fetches 100. *)
(***************************************************************************)
C1_NonPositiveLimitFetchesNothing ==
    (limitIn.t = "num" /\ limitIn.n <= 0) =>
        /\ requests = <<>>
        /\ pc = "returned" => result = <<>>

(***************************************************************************)
(* C2.  For every limit and every upstream, the sequence a fetch returns   *)
(* has at most limit items, also when a page holds more than was asked.    *)
(* Neither fetch truncates: an overlong page is returned whole.            *)
(***************************************************************************)
C2_ResultAtMostLimit ==
    (pc = "returned" /\ PositiveLimit) => Len(result) <= limitIn.n

(***************************************************************************)
(* C3, as claimed.  For every limit L in 1..100 a fetch issues exactly one *)
(* upstream call, whatever the upstream does.                              *)
(***************************************************************************)
C3_ExactlyOneCall ==
    (Finished /\ OnePageLimit) => Len(requests) = 1

(***************************************************************************)
(* C3, amended.  For every limit L in 1..100 a fetch issues at least one   *)
(* upstream call, and exactly one if and only if the first answer is a     *)
(* failure, an empty page or a page of at least L items; a shorter         *)
(* non-empty first page is followed by a further request.                  *)
(***************************************************************************)
C3_OneCallIffFirstAnswerEnds ==
    (Finished /\ OnePageLimit) =>
        /\ Len(requests) >= 1
        /\ (Len(requests) = 1) <=>
               \/ ~responses[1]
               \/ Served(1) = <<>>
               \/ Len(Served(1)) >= limitIn.n

C3_Witness ==
    /\ pc = "returned"
    /\ OnePageLimit
    /\ Len(requests) = 1
    /\ Len(result) >= limitIn.n

(***************************************************************************)
(* C4, as claimed.  When page N is the first empty page of the upstream,   *)
(* a fetch returns the concatenation of pages 1..N-1, whatever the limit.  *)
(* Stated for fetches that asked for pages 1, 2, ... and met no failure.   *)
(***************************************************************************)
C4_AllPagesBeforeFirstEmpty ==
    (/\ pc = "returned"
     /\ PositiveLimit
     /\ ~SomeFailure
     /\ "page" \notin DOMAIN queryParams) =>
        result = PagesUpTo(FirstEmptyPage - 1)

(***************************************************************************)
(* C4, amended.  A fetch returns exactly the in-order concatenation of the *)
(* pages it was served; an empty page is the last answer of its fetch, so  *)
(* a fetch whose N-th answer is the first empty page returns answers       *)
(* 1..N-1, and a fetch that reaches its limit earlier returns only the     *)
(* pages served until then.                                                *)
(***************************************************************************)
C4_ReturnsPagesServed ==
    /\ pc = "returned" => result = ServedUpTo(Len(responses))
    /\ \A i \in 1..Len(responses) :
           (responses[i] /\ Served(i) = <<>>) => i = Len(requests)

C4_Witness ==
    /\ pc = "returned"
    /\ Len(responses) = 3
    /\ responses[3]
    /\ Served(3) = <<>>
    /\ Served(1) # <<>>
    /\ Served(2) # <<>>
    /\ result = Served(1) \o Served(2)

(***************************************************************************)
(* C5, as claimed.  After a failed page request a fetch issues no further  *)
(* request and returns the items of the pages before the failure without   *)
(* raising an error.                                                       *)
(***************************************************************************)
C5_FailureIsSwallowed ==
    SomeFailure =>
        /\ ~responses[Len(requests)]
        /\ pc # "thrown"
        /\ pc = "returned" => result = ServedUpTo(Len(responses))

(***************************************************************************)
(* C5, amended.  After a failed page request a fetch issues no further     *)
(* request.  fetchMediaFromBynder then returns the items of the pages      *)
(* before the failure without raising; getAllMediaItems raises the failure *)
(* to its caller and returns nothing.                                      *)
(***************************************************************************)
C5_FailureEndsTheFetch ==
    \A i \in 1..Len(responses) :
        ~responses[i] =>
            /\ i = Len(requests)
            /\ fn = "fetchMediaFromBynder" =>
                   /\ pc \in {"loop", "returned"}
                   /\ ~LoopGuard
                   /\ pc = "returned" => result = ServedUpTo(i - 1)
            /\ fn = "getAllMediaItems" => (pc = "thrown" /\ result = <<>>)

C5_Witness ==
    /\ fn = "fetchMediaFromBynder"
    /\ pc = "returned"
    /\ Len(responses) = 2
    /\ ~responses[2]
    /\ result # <<>>

(***************************************************************************)
(* C6.  Within one fetch at most one upstream request is outstanding:      *)
(* request k+1 is sent only after the answer to request k has arrived.     *)
(***************************************************************************)
C6_OneRequestOutstanding ==
    /\ Cardinality(inflight) <= 1
    /\ Len(requests) <= Len(responses) + 1
    /\ inflight = (Len(responses) + 1)..Len(requests)

C6_Witness ==
    /\ Len(requests) = 2
    /\ Len(responses) = 1
    /\ inflight = {2}

C9_NoEmptyFilterSent ==
    handler # "direct" =>
        \A i \in 1..Len(requests) :
            \A k \in DOMAIN requests[i] : ~IsEmptyValue(requests[i][k])

(***************************************************************************)
(* Notions the properties of the flattener are stated with.                *)
(***************************************************************************)
ScalarTags == {"undefined", "null", "nan", "num", "str", "bool"}

\* the column names a record can produce: its keys and, for a field that
\* holds an object or an array, <field>_<subkey>
OwnNames(item) ==
    {item[i].k : i \in 1..Len(item)}
        \cup UNION {{item[i].k \o "_" \o e.k : e \in {Entries(item[i].v)[j] :
                                                       j \in 1..Len(Entries(item[i].v))}} :
                    i \in 1..Len(item)}

\* position of the first row that has column c, and c's place in that row
FirstRow(c) == CHOOSE i \in 1..Len(table.rows) :
    /\ HasKey(table.rows[i], c)
    /\ \A j \in 1..(i - 1) : ~HasKey(table.rows[j], c)

PlaceIn(row, c) == CHOOSE i \in 1..Len(row) : row[i].k = c

\* the column list is the union of the rows' columns, each once, in the
\* order in which they are first seen
ColumnsFirstSeen ==
    LET cols == table.columns
    IN  /\ \A i, j \in 1..Len(cols) : cols[i] = cols[j] => i = j
        /\ {cols[i] : i \in 1..Len(cols)}
               = UNION {{table.rows[r][i].k : i \in 1..Len(table.rows[r])} :
                        r \in 1..Len(table.rows)}
        /\ \A i, j \in 1..Len(cols) :
               i < j =>
                   \/ FirstRow(cols[i]) < FirstRow(cols[j])
                   \/ /\ FirstRow(cols[i]) = FirstRow(cols[j])
                      /\ PlaceIn(table.rows[FirstRow(cols[i])], cols[i])
                             < PlaceIn(table.rows[FirstRow(cols[j])], cols[j])

\* one row per record, holding only columns of its own record
RowsHoldOwnColumns ==
    /\ Len(table.rows) = Len(records)
    /\ \A r \in 1..Len(table.rows) :
           \A i \in 1..Len(table.rows[r]) : table.rows[r][i].k \in OwnNames(records[r])

\* the records of the example: [{a: 1}, {b: 2}]
ExampleRecords == <<<<Field("a", Num(1))>>, <<Field("b", Num(2))>>>>

\* a record of plain values only: numbers, strings, booleans; no fileSize
PlainRecord(item) ==
    \A i \in 1..Len(item) :
        item[i].v.t \in {"num", "str", "bool"} /\ item[i].k # "fileSize"

Returned(f) == call.f = f /\ ret # Pending

RECURSIVE LadderStep(_)
\* divisions by 1024 while the value is at least 1024, the ladder's top capped
LadderStep(n) ==
    IF n < Kilo THEN 0
    ELSE LET up == 1 + LadderStep(n \div Kilo)
         IN  IF up > Len(Sizes) - 1 THEN Len(Sizes) - 1 ELSE up

\* the byte-count formatter as the specification words it
ByteCountFormatter(v) ==
    IF v.t # "num" THEN Str("")
    ELSE IF v.n <= 0 THEN Str(ToString(v.n) \o " Bytes")
    ELSE LET i == LadderStep(v.n)
             unit == Pow(Kilo, i)
         IN  Str(TwoDecimals((v.n * 200 + unit) \div (2 * unit)) \o " " \o Sizes[i + 1])

(***************************************************************************)
(* C11.  formatFileSize agrees on every input with the byte-count          *)
(* formatter of the specification: 0 gives "0 Bytes", 1024 gives "1 KB",   *)
(* 1536 gives "1.5 KB", null or a value that is not a number gives the     *)
(* empty string, and every numeric result carries a unit of the ladder.    *)
(* The code tests !bytes before bytes === 0, so 0 gives the empty string.  *)
(***************************************************************************)
C11_FormatFileSizeAgrees ==
    Returned("formatFileSize") =>
        /\ ret = ByteCountFormatter(call.arg)
        /\ call.arg = Num(0) => ret = Str("0 Bytes")
        /\ call.arg = Num(1024) => ret = Str("1 KB")
        /\ call.arg = Num(1536) => ret = Str("1.5 KB")
        /\ call.arg \in {Null, Str("abc")} => ret = Str("")

(***************************************************************************)
(* C12.  slugifyDomain maps "https://My-Portal.getbynder.com/" to          *)
(* "my-portal" and null or empty input to "unknown".  Only the suffix      *)
(* .com is removed, so the host label getbynder stays in the slug.         *)
(***************************************************************************)
C12_PortalSlugIsMyPortal ==
    Returned("slugifyDomain") =>
        /\ call.arg = Chars(PortalUrl) =>
               ret = Chars(<<"m", "y", "-", "p", "o", "r", "t", "a", "l">>)
        /\ call.arg \in {Null, Undefined, Chars(<<>>)} => ret = Chars(Unknown)

(***************************************************************************)
(* C12, amended.  slugifyDomain maps "https://My-Portal.getbynder.com/"    *)
(* to "my-portal-getbynder" and null or empty input to "unknown".          *)
(***************************************************************************)
C12_PortalSlugKeepsHost ==
    Returned("slugifyDomain") =>
        /\ call.arg = Chars(PortalUrl) =>
               ret = Chars(<<"m", "y", "-", "p", "o", "r", "t", "a", "l", "-",
                             "g", "e", "t", "b", "y", "n", "d", "e", "r">>)
        /\ call.arg \in {Null, Undefined, Chars(<<>>)} => ret = Chars(Unknown)

C12_Witness ==
    /\ Returned("slugifyDomain")
    /\ call.arg = Chars(PortalUrl)
    /\ Len(ret.cs) = 19

\* the rows of the metaproperties sheet whose ID is the value v
RowsWithId(v) ==
    {i \in 1..Len(ret.metapropertiesData) : Cell(ret.metapropertiesData[i], "ID") = v}

\* no two rows of the metaproperties sheet have the same ID
DistinctIds ==
    \A i, j \in 1..Len(ret.metapropertiesData) :
        Cell(ret.metapropertiesData[i], "ID") = Cell(ret.metapropertiesData[j], "ID")
            => i = j

(***************************************************************************)
(* C13.  In the metaproperty export, for every upstream mapping, every row *)
(* of the options sheet has a 'Metaproperty ID' equal to the 'ID' of       *)
(* exactly one row of the metaproperties sheet.  Two metaproperties with   *)
(* the same id (or one whose key is the other's id) give two such rows.    *)
(***************************************************************************)
C13_OptionNamesExactlyOneRow ==
    Returned("createMetaPropertiesXLSXAll") =>
        \A r \in 1..Len(ret.optionsData) :
            Cardinality(RowsWithId(Cell(ret.optionsData[r], "Metaproperty ID"))) = 1

(***************************************************************************)
(* C13, amended.  Every row of the options sheet has a 'Metaproperty ID'   *)
(* equal to the 'ID' of at least one row of the metaproperties sheet, and  *)
(* of exactly one when no two rows of that sheet have the same ID.         *)
(***************************************************************************)
C13_OptionNamesARow ==
    Returned("createMetaPropertiesXLSXAll") =>
        \A r \in 1..Len(ret.optionsData) :
            LET n == Cardinality(RowsWithId(Cell(ret.optionsData[r], "Metaproperty ID")))
            IN  /\ n >= 1
                /\ DistinctIds => n = 1

C13_Witness ==
    /\ Returned("createMetaPropertiesXLSXAll")
    /\ Len(ret.metapropertiesData) = 2
    /\ DistinctIds
    /\ Len(ret.optionsData) >= 2
    /\ \E r \in 1..Len(ret.optionsData) :
           Cell(ret.optionsData[r], "Metaproperty ID")
                = Cell(ret.metapropertiesData[2], "ID")

(***************************************************************************)
(* Notions the properties of the handlers are stated with.                 *)
(***************************************************************************)
\* the handler has ended: an answer was sent, or its promise rejected
Answered == res # NoResponse

\* an error envelope: success = false, a code and a message
IsErrorEnvelope(r) ==
    r.kind = "json" /\ ~r.success /\ r.code # "" /\ r.message # ""

GetMediaByIdHandlers == {"getMediaByIdA", "getMediaByIdB"}

MediaListHandlers == {"getMediaListA", "getMediaListB"}

\* the handlers that ask for the instance before anything else they do
InstanceHandlers ==
    {"createMediaExporterA", "createMediaExporterB", "getMediaListA",
     "getMediaListB", "getMediaByIdA", "getMediaByIdB", "exportMetaPropertiesA",
     "exportMetaPropertiesB", "getMetapropertyList", "exportAllMetaProperties"}

\* the upstream call gave an error, or nothing where an item was asked for
CallFailed(c) ==
    IF c.op = "getMediaInfo"
    THEN ~c.answer.ok \/ ~c.answer.found
    ELSE c.answer \in {Str("error"), Str("notOk")}

MissingId == handler \in GetMediaByIdHandlers /\ ~Truthy(req.id)

\* the outcomes of a request that are failures: no instance, a missing
\* parameter, a failed upstream call of the handler, a failure raised by
\* the fetch.  An empty result is not one of them.
FailureOutcome ==
    /\ handler \notin {"none", "direct"}
    /\ \/ bynderInstance = "absent" /\ handler # "downloadExportedFile"
       \/ MissingId
       \/ \E i \in 1..Len(sdkCalls) : CallFailed(sdkCalls[i])
       \/ pc = "thrown"

\* no upstream call was made and no artifact written
NothingDone == requests = <<>> /\ sdkCalls = <<>> /\ uploads = <<>>

(***************************************************************************)
(* C14.  Every failure outcome of every handler reaches the caller as one  *)
(* envelope with success = false, an error code and a message: no failure  *)
(* of a handler ends as a rejected promise without a response.             *)
(***************************************************************************)
C14_FailureIsAnErrorEnvelope ==
    (Answered /\ FailureOutcome) => IsErrorEnvelope(res)

(***************************************************************************)
(* C15.  When the SDK instance is absent, each of createMediaExporter,     *)
(* getMediaList, getMediaById, exportMetaProperties, getMetapropertyList   *)
(* and exportAllMetaProperties answers with a 500 error envelope, makes no *)
(* upstream call and writes no artifact.                                   *)
(***************************************************************************)
C15_AbsentInstanceIs500 ==
    (bynderInstance = "absent" /\ handler \in InstanceHandlers /\ Answered) =>
        /\ IsErrorEnvelope(res)
        /\ res.status = 500
        /\ NothingDone

(***************************************************************************)
(* C15, amended.  When the SDK instance is absent, each of these handlers  *)
(* makes no upstream call and writes no artifact, and answers with a 500   *)
(* error envelope, except getMediaById asked without an id, which answers  *)
(* 400 INVALID_PARAMETER: the id is looked at before the instance.         *)
(***************************************************************************)
C15_AbsentInstanceIs500UnlessNoId ==
    (bynderInstance = "absent" /\ handler \in InstanceHandlers /\ Answered) =>
        /\ IsErrorEnvelope(res)
        /\ NothingDone
        /\ IF MissingId
           THEN res.status = 400 /\ res.code = "INVALID_PARAMETER"
           ELSE res.status = 500 /\ res.message = NotInitialized

C15_Witness ==
    /\ bynderInstance = "absent"
    /\ handler = "exportAllMetaProperties"
    /\ res = errorResponse(NotInitialized, "METAPROPERTY_EXPORT_ERROR", 500)

(***************************************************************************)
(* C16.  getMediaById: when getMediaInfo gives nothing, or fails with      *)
(* status 404, the handler answers with a 404 error envelope after exactly *)
(* one getMediaInfo call; without an id it answers 400 INVALID_PARAMETER   *)
(* and makes no upstream call.                                             *)
(***************************************************************************)
C16_NotFoundIs404AfterOneCall ==
    (handler \in GetMediaByIdHandlers /\ Answered) =>
        /\ MissingId =>
              /\ IsErrorEnvelope(res)
              /\ res.status = 400
              /\ res.code = "INVALID_PARAMETER"
              /\ sdkCalls = <<>>
              /\ requests = <<>>
        /\ \A i \in 1..Len(sdkCalls) :
              sdkCalls[i].answer \in {Resolved(FALSE), Rejected(Num(404))} =>
                  /\ IsErrorEnvelope(res)
                  /\ res.status = 404
                  /\ sdkCalls = <<SdkCall("getMediaInfo", sdkCalls[i].answer)>>
                  /\ requests = <<>>

C16_Witness ==
    /\ handler = "getMediaByIdA"
    /\ sdkCalls = <<SdkCall("getMediaInfo", Rejected(Num(404)))>>
    /\ res.status = 404
    /\ res.code = "MEDIA_NOT_FOUND"


(***************************************************************************)
(* C17.  Two export requests that both use the default filename never      *)
(* write the same artifact path, also when they are handled together or    *)
(* within the same tick of the clock.                                      *)
(***************************************************************************)
C17_DefaultFilenamesNeverCollide ==
    \A i, j \in 1..Len(uploads) :
        (i < j /\ ~uploads[i].filename.custom /\ ~uploads[j].filename.custom) =>
            uploads[i].filename # uploads[j].filename

\* the list handler has given its fetch a target
ListFetchStarted == handler \in MediaListHandlers /\ fn # "none"

(***************************************************************************)
(* C18.  For every limit query value, GET /api/media/list runs its fetch   *)
(* with a target of at most 1000 items, and with a target of 100 when the  *)
(* limit is absent.                                                        *)
(***************************************************************************)
C18_ListTargetAtMost1000 ==
    ListFetchStarted =>
        /\ ~JsLess(Num(MaxListLimit), limit)
        /\ ~req.limit.present => limit = Num(DefaultListLimit)

C18_Witness ==
    /\ handler = "getMediaListB"
    /\ req.limit = Sent(<<"2", "0", "0", "0">>)
    /\ limit = Num(MaxListLimit)
    /\ pc = "returned"
    /\ result # <<>>

\* the page the caller asked for: parseInt(page), 1 when it is absent
AskedPage == ParsedOrDefault(req.page, 1)

(***************************************************************************)
(* C19.  GET /api/media/list with the query parameter page = p requests    *)
(* the upstream page p first, page 1 when the parameter is absent.         *)
(***************************************************************************)
C19_PageSelectsFirstUpstreamPage ==
    (handler \in MediaListHandlers /\ requests # <<>>) =>
        Get(requests[1], "page") = AskedPage


\* the values of a property_ field: the elements of an array, or the value
ValuesOf(v) == IF IsArray(v) THEN v.a ELSE <<v>>

\* an option is a value of a property_ field that is an object
IsOption(val) == val.t \in {"array", "object"}

\* the id an option is known by: its id, or its JSON text when it has none
OptionIdOf(val) == Or(Prop(val, "id"), Str(JsonStringify(val)))

\* the options sheet has a row for the option under the property
HasOptionRow(propertyName, optionId) ==
    \E r \in 1..Len(ret.optionsData) :
        /\ Cell(ret.optionsData[r], "ID") = optionId
        /\ Cell(ret.optionsData[r], "Parent Property") = Str(propertyName)

(***************************************************************************)
(* C20.  The meta-properties export built from media items contains all    *)
(* options with their parent references: every (property, option) pair     *)
(* found under a property_ field of an item is a row of the 'Property      *)
(* Options' sheet whose 'Parent Property' is that property.  The options    *)
(* are stored under the option id alone, so an option seen under two        *)
(* properties keeps only the parent seen last.                              *)
(***************************************************************************)
C20_EveryOptionWithItsParent ==
    Returned("extractMetaProperties") =>
        \A i \in 1..Len(call.arg.a) :
            LET fields == Entries(call.arg.a[i])
            IN  \A j \in 1..Len(fields) :
                    IsPropertyKey(fields[j].k) =>
                        LET vals == ValuesOf(fields[j].v)
                        IN  \A n \in 1..Len(vals) :
                                IsOption(vals[n]) =>
                                    HasOptionRow(fields[j].k, OptionIdOf(vals[n]))

\* a character of [a-z0-9-]
IsLowerSlugChar(c) == IsSlugChar(c) /\ ToLowerCase(c) = c

\* a string over [a-z0-9-] that neither starts nor ends with a dash
WellFormedSlug(cs) ==
    /\ \A i \in 1..Len(cs) : IsLowerSlugChar(cs[i])
    /\ cs # <<>> => (cs[1] # "-" /\ cs[Len(cs)] # "-")

(***************************************************************************)
(* C30.  slugifyDomain is idempotent and its result is a non-empty string  *)
(* over [a-z0-9-] with no leading or trailing dash: for every string s,    *)
(* slugifyDomain(slugifyDomain(s)) = slugifyDomain(s).                     *)
(***************************************************************************)
C30_SlugIsIdempotentAndNonEmpty ==
    (Returned("slugifyDomain") /\ call.arg.t = "chars") =>
        /\ ret.cs # <<>>
        /\ WellFormedSlug(ret.cs)
        /\ slugifyDomain(ret) = ret


\* the first n items of the fixed list
FirstListed(n) == [i \in 1..n |-> i]

(***************************************************************************)
(* C21.  Against an upstream that serves page p of size s as the items     *)
(* (p-1)*s+1 .. p*s of a fixed list of T items, a fetch with limit L       *)
(* returns exactly the first min(L, T) items of the list, each once and in *)
(* list order, also for L above 100 that is not a multiple of 100.         *)
(***************************************************************************)
C21_ReturnsFirstItemsOfList ==
    (catalogue.sized /\ pc = "returned") =>
        result = FirstListed(Min(limit.n, catalogue.total))

\* the size asked of the k-th request when the loop's values are sent
SizeOfRequest(k) == MathMin(Num(PageSize), JsMinus(limit, Len(ServedUpTo(k - 1))))

C24_FiltersUnchanged ==
    [][pc # "idle" => queryParams' = queryParams]_vars

C24_Witness ==
    /\ Finished
    /\ Len(requests) >= 2
    /\ "type" \in DOMAIN queryParams
    /\ \A i \in 1..Len(requests) : requests[i] # queryParams


(***************************************************************************)
(* C25.  When every upstream call returns or fails in the end, every fetch *)
(* terminates, for every limit and every upstream; with an effective       *)
(* limit L >= 1 it issues at most L upstream calls.                        *)
(***************************************************************************)
C25_FetchTerminatesWithinLimitCalls ==
    /\ (fn # "none") ~> Finished
    /\ []((limit.t = "num" /\ limit.n >= 1) => Len(requests) <= limit.n)

C25_Witness ==
    /\ Finished
    /\ limit.t = "num"
    /\ limit.n >= 2
    /\ Len(requests) = limit.n



(***************************************************************************)
(* The flattening rules as an ordered list: the first rule a field matches *)
(* gives its cells.                                                        *)
(***************************************************************************)
RuleOf(key, value) ==
    IF value.t \in {"null", "undefined"} THEN "empty"
    ELSE IF key \in PropertyKeys THEN "property"
    ELSE IF key = "fileSize" THEN "fileSize"
    ELSE IF key = "tags" /\ value.t = "array" THEN "tags"
    ELSE IF key = "thumbnails" /\ value.t = "object" THEN "thumbnails"
    ELSE IF value.t = "object" THEN "object"
    ELSE IF value.t = "array" THEN "sequence"
    ELSE "scalar"

\* the cells the rule of a field writes into the row
RuleCells(row, key, value) ==
    CASE RuleOf(key, value) = "empty" -> SetCell(row, key, Str(""))
      [] RuleOf(key, value) = "property" -> SetCell(row, key, SubCell(value))
      [] RuleOf(key, value) = "fileSize" -> SetCell(row, key, formatFileSize(value))
      [] RuleOf(key, value) \in {"tags", "sequence"} ->
             SetCell(row, key, Str(JoinWith(value.a, ", ")))
      [] RuleOf(key, value) = "thumbnails" -> ExpandThumbnails(value.o, row)
      [] RuleOf(key, value) = "object" -> ExpandObject(key, value.o, row)
      [] OTHER -> SetCell(row, key, value)

RECURSIVE RuleRow(_, _)
RuleRow(fields, row) ==
    IF fields = <<>> THEN row
    ELSE RuleRow(Tail(fields), RuleCells(row, Head(fields).k, Head(fields).v))

(***************************************************************************)
(* C23.  Every row of the table is what the rules give in this order, the  *)
(* first match winning: null or absent to the empty string, a property_    *)
(* field, fileSize through the byte formatter, the tags sequence joined,   *)
(* the thumbnails map expanded to thumbnails_<subkey>, any other object    *)
(* that is no sequence expanded one level with nested objects stringified, *)
(* any other sequence joined with ", ", a scalar as it is.                 *)
(***************************************************************************)
C23_FirstMatchingRuleWins ==
    fpc = "done" =>
        \A r \in 1..Len(records) : table.rows[r] = RuleRow(records[r], <<>>)


\* the columns one field of an item writes
Written(field) == Keys(FlattenField(<<>>, field.k, field.v))

RECURSIVE WriteCount(_)
\* the number of cells the fields of an item write, one after another
WriteCount(item) ==
    IF item = <<>> THEN 0 ELSE Len(Written(Head(item))) + WriteCount(Tail(item))

(***************************************************************************)
(* C29.  Within one flattened row distinct source fields write distinct    *)
(* columns: the row has one cell for every cell written, so a column       *)
(* <field>_<subkey> that comes from expanding an object is never written   *)
(* again by a field named <field>_<subkey>, and no value is overwritten.   *)
(***************************************************************************)
C29_NoColumnWrittenTwice ==
    fpc = "done" =>
        \A r \in 1..Len(records) : Len(table.rows[r]) = WriteCount(records[r])


ContentAccessHandlers == {"getMetapropertyListCA", "getMetapropertyByIdCA"}

\* the handler fetched from the content access API
Fetched == \E i \in 1..Len(sdkCalls) : sdkCalls[i].op = "fetch"

(***************************************************************************)
(* C28.  The content access handlers never fetch without a bearer token:   *)
(* when the instance holds no access token, as before the client           *)
(* credentials grant has answered or after it failed, they answer with a   *)
(* 500 error envelope and fetch nothing.                                   *)
(***************************************************************************)
C28_NoTokenIs500WithoutFetch ==
    (handler \in ContentAccessHandlers /\ pc = "done"
        /\ bynderInstance = "present" /\ apiToken # "held") =>
        /\ ~Fetched
        /\ IsErrorEnvelope(res)
        /\ res.status = 500


\* the i-th request was an export that answered success with a filename
ExportAnswered(i) == served[i].op = "export" /\ served[i].ok

\* the j-th request was a download by the filename the i-th answered with
DownloadOf(i, j) ==
    /\ i < j
    /\ ExportAnswered(i)
    /\ served[j].op = "download"
    /\ served[j].name = <<served[i].filename>>

(***************************************************************************)
(* C26.  After an export handler has answered with success and a filename, *)
(* a later download of that filename finds the artifact and does not       *)
(* answer FILE_NOT_FOUND, for the default filename and for every filename  *)
(* a caller sends.                                                         *)
(***************************************************************************)
C26_DownloadFindsExport ==
    \A i, j \in 1..Len(served) : DownloadOf(i, j) => served[j].ok

\* the path lies inside the uploads directory
InsideUploads(p) ==
    Len(p) > Len(uploadsDir) /\ SubSeq(p, 1, Len(uploadsDir)) = uploadsDir

(***************************************************************************)
(* C27.  For every filename a caller sends, as the parameter of an export  *)
(* or as the path parameter of a download, also one with ".." segments,    *)
(* the artifact an export writes and the file a download serves lie inside *)
(* the uploads directory.                                                  *)
(***************************************************************************)
C27_PathsInsideUploads ==
    \A i \in 1..Len(served) : served[i].ok => InsideUploads(served[i].path)

====
